---- MODULE Spec2Model ----
(***************************************************************************)
(* Model of the repeated-block detection and pruning engine,               *)
(* remove_repeated_blocks of pdf_to_json_redundancy_removed_report.py,     *)
(* together with the helpers it calls.                                     *)
(*                                                                         *)
(* Representation.                                                         *)
(*  - A Python str is a sequence of one-character strings.                 *)
(*  - A float that the code obtains as a quotient of two small integers    *)
(*    (presence ratios, similarity ratios) or reads as a decimal literal   *)
(*    (thresholds) is the exact rational <<num, den>>, den > 0.  With the  *)
(*    small numerators and denominators that occur, IEEE division rounds   *)
(*    equal rationals to equal doubles and distinct ones to distinct       *)
(*    doubles, so the comparisons agree with the code's.                   *)
(*  - Bounding-box coordinates are kept in half units (coordinate 1.5 is   *)
(*    3) so that round()'s ties are representable.                         *)
(*  - Python objects that can be aliased or mutated (the document dict,    *)
(*    the page list, page dicts, block lists, block dicts) live in `heap`, *)
(*    a sequence of objects addressed by index.                            *)
(***************************************************************************)
EXTENDS Integers, Sequences, FiniteSets, TLC

(***************************************************************************)
(* Characters and strings                                                  *)
(***************************************************************************)
UpperChars == <<"A","B","C","D","E","F","G","H","I","J","K","L","M",
                "N","O","P","Q","R","S","T","U","V","W","X","Y","Z">>

LowerChars == <<"a","b","c","d","e","f","g","h","i","j","k","l","m",
                "n","o","p","q","r","s","t","u","v","w","x","y","z">>

DigitChars == {"0","1","2","3","4","5","6","7","8","9"}

SpaceChars == {" ", "\t", "\n", "\r"}

IsDigit(c) == c \in DigitChars

IsSpace(c) == c \in SpaceChars

LowerChar(c) ==
  IF \E i \in 1..26 : UpperChars[i] = c
  THEN LowerChars[CHOOSE i \in 1..26 : UpperChars[i] = c]
  ELSE c

\* str.lower()
Lower(s) == [i \in 1..Len(s) |-> LowerChar(s[i])]

RECURSIVE LStrip(_)
LStrip(s) == IF s # <<>> /\ IsSpace(Head(s)) THEN LStrip(Tail(s)) ELSE s

RECURSIVE RStrip(_)
RStrip(s) ==
  IF s # <<>> /\ IsSpace(s[Len(s)]) THEN RStrip(SubSeq(s, 1, Len(s) - 1)) ELSE s

\* str.strip()
Strip(s) == RStrip(LStrip(s))

\* "".join(list of str)
RECURSIVE Join(_)
Join(ss) == IF ss = <<>> THEN <<>> ELSE Head(ss) \o Join(Tail(ss))

\* end (exclusive) of the maximal run of characters of class `cls` that
\* starts at position i; i itself when there is no such character
RECURSIVE RunEnd(_, _, _)
RunEnd(s, i, cls) ==
  IF i <= Len(s) /\ s[i] \in cls THEN RunEnd(s, i + 1, cls) ELSE i

\* re.sub(r'\s+', ' ', s)
RECURSIVE CollapseSpaceFrom(_, _)
CollapseSpaceFrom(s, i) ==
  IF i > Len(s) THEN <<>>
  ELSE IF IsSpace(s[i])
       THEN <<" ">> \o CollapseSpaceFrom(s, RunEnd(s, i, SpaceChars))
       ELSE <<s[i]>> \o CollapseSpaceFrom(s, i + 1)

CollapseSpace(s) == CollapseSpaceFrom(s, 1)

\* re.sub(r'\d+', repl, s)
RECURSIVE SubDigitsFrom(_, _, _)
SubDigitsFrom(s, i, repl) ==
  IF i > Len(s) THEN <<>>
  ELSE IF IsDigit(s[i])
       THEN repl \o SubDigitsFrom(s, RunEnd(s, i, DigitChars), repl)
       ELSE <<s[i]>> \o SubDigitsFrom(s, i + 1, repl)

SubDigits(s, repl) == SubDigitsFrom(s, 1, repl)

\* a literal matched at position i, ignoring case: the end of the match
\* (exclusive), or 0 when there is none
MatchLit(s, i, lit) ==
  IF i >= 1 /\ i + Len(lit) - 1 <= Len(s)
     /\ \A k \in 1..Len(lit) : LowerChar(s[i + k - 1]) = lit[k]
  THEN i + Len(lit)
  ELSE 0

\* cls+ matched at position i (0 when i is 0 or nothing matches).  The
\* classes used below are disjoint from whatever follows them in the
\* patterns, so the greedy run is the only candidate.
MatchPlus(s, i, cls) ==
  IF i = 0 THEN 0
  ELSE IF RunEnd(s, i, cls) > i THEN RunEnd(s, i, cls) ELSE 0

\* page\s+\d+ at position i
MatchPageN(s, i) ==
  MatchPlus(s, MatchPlus(s, MatchLit(s, i, <<"p","a","g","e">>), SpaceChars),
            DigitChars)

\* \s+of\s+\d+ at position i (i = 0 propagates)
MatchOfM(s, i) ==
  LET a == MatchPlus(s, i, SpaceChars)
      b == IF a = 0 THEN 0 ELSE MatchLit(s, a, <<"o","f">>)
  IN  MatchPlus(s, MatchPlus(s, b, SpaceChars), DigitChars)

\* page\s+\d+\s+of\s+\d+ at position i.  \d+ is followed by \s, so giving
\* digits back cannot help and the greedy match decides.
MatchPageNofM(s, i) == MatchOfM(s, MatchPageN(s, i))

\* \d+\s+of\s+\d+ at position i
MatchNofM(s, i) == MatchOfM(s, MatchPlus(s, i, DigitChars))

\* re.sub(r'(?i)page\s+\d+\s+of\s+\d+', 'page X of Y', s)
RECURSIVE SubPageNofMFrom(_, _)
SubPageNofMFrom(s, i) ==
  IF i > Len(s) THEN <<>>
  ELSE IF MatchPageNofM(s, i) # 0
       THEN <<"p","a","g","e"," ","X"," ","o","f"," ","Y">>
            \o SubPageNofMFrom(s, MatchPageNofM(s, i))
       ELSE <<s[i]>> \o SubPageNofMFrom(s, i + 1)

\* re.sub(r'(?i)page\s+\d+', 'page X', s)
RECURSIVE SubPageNFrom(_, _)
SubPageNFrom(s, i) ==
  IF i > Len(s) THEN <<>>
  ELSE IF MatchPageN(s, i) # 0
       THEN <<"p","a","g","e"," ","X">> \o SubPageNFrom(s, MatchPageN(s, i))
       ELSE <<s[i]>> \o SubPageNFrom(s, i + 1)

\* `sub in s`
Contains(s, sub) ==
  \E i \in 1..(Len(s) + 1) :
    /\ i + Len(sub) - 1 <= Len(s)
    /\ \A k \in 1..Len(sub) : s[i + k - 1] = sub[k]

\* the normalisation without the removal of digits
normalize_keeping_digits(s, remove_digits, case_sensitive) ==
  Strip(CollapseSpace(IF case_sensitive THEN Strip(s) ELSE Lower(Strip(s))))

_normalize_text(s, remove_digits, case_sensitive) ==
  LET s1 == Strip(s)
      s2 == IF case_sensitive THEN s1 ELSE Lower(s1)
      s3 == CollapseSpace(s2)
      s4 == IF remove_digits THEN SubDigits(s3, <<>>) ELSE s3
  IN  Strip(s4)

\* a bug that folds the case whatever case_sensitive says
normalize_pattern_lowercased(s, case_sensitive) ==
  Strip(SubDigits(SubPageNFrom(SubPageNofMFrom(CollapseSpace(Lower(Strip(s))), 1), 1),
                  <<"X">>))

_normalize_text_pattern(s, case_sensitive) ==
  LET s1 == Strip(s)
      s2 == IF case_sensitive THEN s1 ELSE Lower(s1)
      s3 == CollapseSpace(s2)
      s4 == SubPageNofMFrom(s3, 1)
      s5 == SubPageNFrom(s4, 1)
      s6 == SubDigits(s5, <<"X">>)
  IN  Strip(s6)

_has_page_pattern(text) ==
  LET t == Lower(text)
  IN  \E i \in 1..Len(t) :
        MatchPageNofM(t, i) # 0 \/ MatchPageN(t, i) # 0 \/ MatchNofM(t, i) # 0

(***************************************************************************)
(* Rationals <<num, den>> in lowest terms, standing for the code's floats  *)
(***************************************************************************)
RECURSIVE Gcd(_, _)
Gcd(a, b) == IF b = 0 THEN a ELSE Gcd(b, a % b)

Rat(n, d) == IF n = 0 THEN <<0, 1>> ELSE <<n \div Gcd(n, d), d \div Gcd(n, d)>>

RatGeq(x, y) == x[1] * y[2] >= y[1] * x[2]

RatLeq(x, y) == RatGeq(y, x)

RatMean(x, y) == Rat(x[1] * y[2] + y[1] * x[2], 2 * x[2] * y[2])

One == <<1, 1>>

(***************************************************************************)
(* difflib.SequenceMatcher(None, a, b).ratio() for strings shorter than    *)
(* the 200 characters at which the autojunk heuristic starts: the          *)
(* longest matching block (earliest in a, then earliest in b), then the    *)
(* same to its left and to its right; ratio = 2 * matches / total length.  *)
(***************************************************************************)
RECURSIVE CommonLen(_, _, _, _, _, _)
CommonLen(a, i, ahi, b, j, bhi) ==
  IF i < ahi /\ j < bhi /\ a[i] = b[j]
  THEN 1 + CommonLen(a, i + 1, ahi, b, j + 1, bhi)
  ELSE 0

\* find_longest_match(alo, ahi, blo, bhi) as <<i, j, k>>, ranges half-open
find_longest_match(a, alo, ahi, b, blo, bhi) ==
  LET C == {c \in (alo..(ahi - 1)) \X (blo..(bhi - 1)) : a[c[1]] = b[c[2]]}
      len == [c \in C |-> CommonLen(a, c[1], ahi, b, c[2], bhi)]
  IN  IF C = {} THEN <<alo, blo, 0>>
      ELSE LET k  == CHOOSE m \in {len[c] : c \in C} :
                       \A c \in C : len[c] <= m
               Ck == {c \in C : len[c] = k}
               i  == CHOOSE x \in {c[1] : c \in Ck} :
                       \A c \in Ck : x <= c[1]
               j  == CHOOSE y \in {c[2] : c \in {d \in Ck : d[1] = i}} :
                       \A c \in {d \in Ck : d[1] = i} : y <= c[2]
           IN  <<i, j, k>>

\* sum of the sizes of get_matching_blocks()
RECURSIVE MatchTotal(_, _, _, _, _, _)
MatchTotal(a, alo, ahi, b, blo, bhi) ==
  IF alo >= ahi \/ blo >= bhi THEN 0
  ELSE LET m == find_longest_match(a, alo, ahi, b, blo, bhi)
       IN  IF m[3] = 0 THEN 0
           ELSE m[3]
                + MatchTotal(a, alo, m[1], b, blo, m[2])
                + MatchTotal(a, m[1] + m[3], ahi, b, m[2] + m[3], bhi)

SequenceMatcherRatio(a, b) ==
  IF Len(a) + Len(b) = 0 THEN One
  ELSE Rat(2 * MatchTotal(a, 1, Len(a) + 1, b, 1, Len(b) + 1), Len(a) + Len(b))

\* insertion of x into an ascending sequence of rationals
RECURSIVE InsertRat(_, _)
InsertRat(x, s) ==
  IF s = <<>> THEN <<x>>
  ELSE IF RatLeq(x, Head(s)) THEN <<x>> \o s
       ELSE <<Head(s)>> \o InsertRat(x, Tail(s))

RECURSIVE SortRat(_)
SortRat(s) == IF s = <<>> THEN <<>> ELSE InsertRat(Head(s), SortRat(Tail(s)))

\* statistics.median
Median(s) ==
  LET t == SortRat(s)
      n == Len(t)
  IN  IF n % 2 = 1 THEN t[(n + 1) \div 2]
      ELSE RatMean(t[n \div 2], t[n \div 2 + 1])

\* itertools.combinations(strs, 2), as index pairs in its order
RECURSIVE PairsFrom(_, _, _)
PairsFrom(n, i, j) ==
  IF i >= n THEN <<>>
  ELSE IF j > n THEN PairsFrom(n, i + 1, i + 2)
       ELSE <<<<i, j>>>> \o PairsFrom(n, i, j + 1)

_median_pairwise_similarity(strs) ==
  IF Len(strs) <= 1 THEN One
  ELSE LET prs  == PairsFrom(Len(strs), 1, 2)
           sims == [k \in 1..Len(prs) |->
                      IF strs[prs[k][1]] = <<>> /\ strs[prs[k][2]] = <<>>
                      THEN One
                      ELSE SequenceMatcherRatio(strs[prs[k][1]], strs[prs[k][2]])]
       IN  Median(sims)

(***************************************************************************)
(* Bytes, base64 and SHA-256                                               *)
(*                                                                         *)
(* bytes are sequences of integers 0..255.  AsciiChars[k] is chr(31 + k),  *)
(* the printable ASCII characters (three that the lexer reserves are       *)
(* spelled out and never occur); the model's str payloads use only these.  *)
(*  hashlib.sha256(b).hexdigest() is idealised as an injective      *)
(* function of b: the digest of b is <<"sha256", b>>.                      *)
(***************************************************************************)
AsciiChars ==
  <<" ", "!", "DQUOTE", "#", "$", "%", "&", "'", "(", ")", "*", "+",
    ",", "-", ".", "/", "0", "1", "2", "3", "4", "5", "6", "7",
    "8", "9", ":", ";", "<", "=", ">", "?", "@", "A", "B", "C",
    "D", "E", "F", "G", "H", "I", "J", "K", "L", "M", "N", "O",
    "P", "Q", "R", "S", "T", "U", "V", "W", "X", "Y", "Z", "[",
    "BACKSLASH", "]", "^", "_", "BACKTICK", "a", "b", "c", "d", "e", "f", "g",
    "h", "i", "j", "k", "l", "m", "n", "o", "p", "q", "r", "s",
    "t", "u", "v", "w", "x", "y", "z", "{", "|", "}", "~">>

Ord(c) == 31 + (CHOOSE k \in 1..Len(AsciiChars) : AsciiChars[k] = c)

\* str.encode("utf-8") / the ascii encoding b64decode applies to a str
EncodeAscii(s) == [i \in 1..Len(s) |-> Ord(s[i])]

Base64Alphabet == UpperChars \o LowerChars
                  \o <<"0","1","2","3","4","5","6","7","8","9","+","/">>

\* the 6-bit value of byte x: 64 for the pad '=', 65 for a byte outside
\* the alphabet
Base64Value(x) ==
  IF x = 61 THEN 64
  ELSE IF \E k \in 1..64 : Ord(Base64Alphabet[k]) = x
       THEN (CHOOSE k \in 1..64 : Ord(Base64Alphabet[k]) = x) - 1
       ELSE 65

\* binascii.a2b_base64 in its default non-strict mode, as called by
\* base64.b64decode(s) (validate=False): bytes outside the alphabet are
\* skipped, decoding stops at a completed pad sequence, and a quad left
\* incomplete is an error.  Result: [ok, bytes].
RECURSIVE a2b_base64(_, _, _, _, _, _)
a2b_base64(b, i, quad_pos, leftchar, pads, out) ==
  IF i > Len(b) THEN [ok |-> quad_pos = 0, bytes |-> out]
  ELSE LET v == Base64Value(b[i])
       IN  IF v = 64
           THEN IF quad_pos >= 2 /\ quad_pos + pads + 1 >= 4
                THEN [ok |-> TRUE, bytes |-> out]
                ELSE a2b_base64(b, i + 1, quad_pos, leftchar,
                                IF quad_pos >= 2 THEN pads + 1 ELSE pads, out)
           ELSE IF v = 65
           THEN a2b_base64(b, i + 1, quad_pos, leftchar, pads, out)
           ELSE CASE quad_pos = 0 ->
                       a2b_base64(b, i + 1, 1, v, 0, out)
                  [] quad_pos = 1 ->
                       a2b_base64(b, i + 1, 2, v % 16, 0,
                                  Append(out, leftchar * 4 + v \div 16))
                  [] quad_pos = 2 ->
                       a2b_base64(b, i + 1, 3, v % 4, 0,
                                  Append(out, leftchar * 16 + v \div 4))
                  [] OTHER ->
                       a2b_base64(b, i + 1, 0, 0, 0,
                                  Append(out, leftchar * 64 + v))

sha256(b) == <<"sha256", b>>

\* An image payload is [kind, data]: kind "str" with a sequence of
\* characters, kind "bytes" with a sequence of byte values, kind "none"
\* for an absent key or None.
NoPayload == [kind |-> "none", data |-> <<>>]

\* Python truthiness of a payload
Truthy(p) == p.kind # "none" /\ p.data # <<>>

\* a bug that leaves out the `if not base64_str` guard and hashes whatever
\* it is given
image_hash_without_guard(base64_str) ==
  [tag |-> "hash", digest |-> sha256(base64_str.data)]

\* Result [tag, digest]: tag "none" for None, "hash" for a digest, "raise"
\* when the call raises (in the except branch `.encode` does not exist on
\* bytes, so a bytes payload that fails to decode raises AttributeError).
_image_hash_from_base64(base64_str) ==
  IF ~Truthy(base64_str) THEN [tag |-> "none", digest |-> <<>>]
  ELSE LET raw == IF base64_str.kind = "str" THEN EncodeAscii(base64_str.data)
                  ELSE base64_str.data
           d   == a2b_base64(raw, 1, 0, 0, 0, <<>>)
       IN  IF d.ok THEN [tag |-> "hash", digest |-> sha256(d.bytes)]
           ELSE IF base64_str.kind = "str"
                THEN [tag |-> "hash", digest |-> sha256(EncodeAscii(base64_str.data))]
                ELSE [tag |-> "raise", digest |-> <<>>]

(***************************************************************************)
(* Blocks.  A block dict is the record                                     *)
(*   [type, bbox, lines, image, image_bytes]                               *)
(* where bbox is a sequence of coordinates in half units (<<>> when the    *)
(* key is missing), lines is a sequence of lines, a line is the sequence   *)
(* of its spans' texts (a missing or None text is the empty string, as     *)
(* `span.get("text", "") or ""` makes it), and image / image_bytes are     *)
(* payloads.                                                               *)
(***************************************************************************)
\* all span texts of the block, in line order
RECURSIVE SpanTexts(_)
SpanTexts(lines) ==
  IF lines = <<>> THEN <<>> ELSE Head(lines) \o SpanTexts(Tail(lines))

_concat_block_text(block) == Strip(Join(SpanTexts(block.lines)))

_get_non_empty_text_spans(block) ==
  LET nonblank == SelectSeq(SpanTexts(block.lines), LAMBDA t : Strip(t) # <<>>)
  IN  [i \in 1..Len(nonblank) |-> Strip(nonblank[i])]

\* the share of non-blank spans compared with the threshold
mostly_empty_by_filled_spans(block, empty_threshold) ==
  LET spans == SpanTexts(block.lines)
  IN  IF Len(spans) = 0 THEN TRUE
      ELSE RatGeq(<<Len(SelectSeq(spans, LAMBDA t : Strip(t) # <<>>)), Len(spans)>>,
                  empty_threshold)

_is_mostly_empty_block(block, empty_threshold) ==
  LET spans       == SpanTexts(block.lines)
      total_spans == Len(spans)
      empty_spans == Len(SelectSeq(spans, LAMBDA t : Strip(t) = <<>>))
  IN  IF total_spans = 0 THEN TRUE
      ELSE RatGeq(<<empty_spans, total_spans>>, empty_threshold)

header_footer_words ==
  << <<"p","a","g","e">>, <<"i","n","i","t","i","a","l">>, <<"d","a","t","e">>,
     <<"s","i","g","n","a","t","u","r","e">>,
     <<"c","o","n","f","i","d","e","n","t","i","a","l">>, <<"d","r","a","f","t">> >>

_is_header_footer_block(block) ==
  LET text             == _concat_block_text(block)
      text_lower       == Lower(text)
      has_page_info    == _has_page_pattern(text)
      has_header_words == \E w \in 1..Len(header_footer_words) :
                            Contains(text_lower, header_footer_words[w])
      non_empty_spans  == _get_non_empty_text_spans(block)
      total_spans      == Len(SpanTexts(block.lines))
      has_mixed_content == Len(non_empty_spans) >= 1
                           /\ Len(non_empty_spans) < total_spans
  IN  (has_page_info \/ has_header_words) /\ has_mixed_content

\* a key of the two counts alone
pattern_key_structure_only(block) ==
  << <<>>, Len(_get_non_empty_text_spans(block)), Len(block.lines) >>

\* the f-string "pattern:{text}|spans:{n}|lines:{m}" as a triple; the
\* string is an injective function of the triple (the pattern text has
\* no digit left, so the numeric suffix is unambiguous)
_create_content_pattern_key(block) ==
  << _normalize_text_pattern(_concat_block_text(block), TRUE),
     Len(_get_non_empty_text_spans(block)),
     Len(block.lines) >>

\* int(round(coord / quant)) for coord = h / 2 and an integral quant:
\* Python's round() rounds halves to the even neighbour
RoundQuot(h, quant) ==
  LET q == h \div (2 * quant)
      r == h % (2 * quant)
  IN  IF r < quant THEN q
      ELSE IF r > quant THEN q + 1
           ELSE IF q % 2 = 0 THEN q ELSE q + 1

\* quantising whatever coordinates the bbox has, without the sentinel
quantize_available(bbox, quant) == [k \in 1..Len(bbox) |-> RoundQuot(bbox[k], quant)]

Quantize(bbox, quant) ==
  IF bbox = <<>> \/ Len(bbox) # 4 THEN <<0, 0, 0, 0>>
  ELSE [k \in 1..4 |-> RoundQuot(bbox[k], quant)]

(***************************************************************************)
(* The heap.  heap[a] is the object at address a:                          *)
(*   kind "doc"   - the document dict; items is <<address of the list      *)
(*                  under "pages">>, or <<>> when the key is absent        *)
(*   kind "page"  - a page dict; items is <<address of the list under      *)
(*                  "blocks">>, or <<>> when the key is absent             *)
(*   kind "list"  - a Python list; items are the addresses of its elements *)
(*   kind "block" - a block dict; val is its content                       *)
(***************************************************************************)
NullBlock == [type |-> -1, bbox |-> <<>>, lines |-> <<>>,
              image |-> NoPayload, image_bytes |-> NoPayload]

Obj(kind, items, val) == [kind |-> kind, items |-> items, val |-> val]

\* d.get(key, []) of a doc or page dict, as the addresses of the elements
GetList(h, a) == IF h[a].items = <<>> THEN <<>> ELSE h[h[a].items[1]].items

\* the document at address d as a value:
\* [haspages, pages], a page being [hasblocks, blocks] and blocks the
\* sequence of block contents
PageTree(h, pa) ==
  [hasblocks |-> h[pa].items # <<>>,
   blocks    |-> [j \in 1..Len(GetList(h, pa)) |-> h[GetList(h, pa)[j]].val]]

Tree(h, d) ==
  [haspages |-> h[d].items # <<>>,
   pages    |-> [k \in 1..Len(GetList(h, d)) |-> PageTree(h, GetList(h, d)[k])]]

\* allocation of a document value, as json.loads builds it: no object is
\* shared
RECURSIVE AllocBlocks(_, _, _)
AllocBlocks(h, vals, acc) ==
  IF vals = <<>> THEN [heap |-> h, addrs |-> acc]
  ELSE AllocBlocks(Append(h, Obj("block", <<>>, Head(vals))), Tail(vals),
                   Append(acc, Len(h) + 1))

AllocPage(h, page) ==
  IF ~page.hasblocks
  THEN [heap |-> Append(h, Obj("page", <<>>, NullBlock)), addr |-> Len(h) + 1]
  ELSE LET bs == AllocBlocks(h, page.blocks, <<>>)
           h2 == Append(bs.heap, Obj("list", bs.addrs, NullBlock))
       IN  [heap |-> Append(h2, Obj("page", <<Len(h2)>>, NullBlock)),
            addr |-> Len(h2) + 1]

RECURSIVE AllocPages(_, _, _)
AllocPages(h, pages, acc) ==
  IF pages = <<>> THEN [heap |-> h, addrs |-> acc]
  ELSE LET pg == AllocPage(h, Head(pages))
       IN  AllocPages(pg.heap, Tail(pages), Append(acc, pg.addr))

AllocDoc(h, tree) ==
  IF ~tree.haspages
  THEN [heap |-> Append(h, Obj("doc", <<>>, NullBlock)), addr |-> Len(h) + 1]
  ELSE LET ps == AllocPages(h, tree.pages, <<>>)
           h2 == Append(ps.heap, Obj("list", ps.addrs, NullBlock))
       IN  [heap |-> Append(h2, Obj("doc", <<Len(h2)>>, NullBlock)),
            addr |-> Len(h2) + 1]

\* the addresses reachable from a set of addresses
RECURSIVE ReachFrom(_, _, _)
ReachFrom(h, frontier, seen) ==
  IF frontier = {} THEN seen
  ELSE ReachFrom(h, UNION {{h[a].items[j] : j \in DOMAIN h[a].items} :
                           a \in frontier} \ (seen \cup frontier),
                 seen \cup frontier)

Reach(h, a) == ReachFrom(h, {a}, {})

\* a set of integers as an ascending sequence
RECURSIVE Ascending(_)
Ascending(S) ==
  IF S = {} THEN <<>>
  ELSE LET m == CHOOSE x \in S : \A y \in S : x <= y
       IN  <<m>> \o Ascending(S \ {m})

Reverse(s) == [k \in 1..Len(s) |-> s[Len(s) + 1 - k]]

\* copy.deepcopy(x): every object reachable from x is copied once (the
\* memo keeps shared objects shared) and the copies refer to copies
deepcopy(h, a) ==
  LET R      == Ascending(Reach(h, a))
      new(x) == Len(h) + (CHOOSE k \in 1..Len(R) : R[k] = x)
      copies == [k \in 1..Len(R) |->
                   [h[R[k]] EXCEPT !.items = [j \in DOMAIN @ |-> new(@[j])]]]
  IN  [heap |-> h \o copies, addr |-> new(a)]

(***************************************************************************)
(* State                                                                   *)
(***************************************************************************)
VARIABLES
  heap,               \* the objects
  parsed_doc,         \* the caller's document (address)
  cfg,                \* the thresholds the caller passes
  call,               \* "first", or which second call is running
  doc,                \* the argument of the running call (address)
  pc,                 \* position in remove_repeated_blocks / in the caller
  groups,             \* exact groups, in insertion order
  pattern_groups,     \* pattern groups, in insertion order
  block_index_groups, \* index groups, in insertion order
  i,                  \* cursor of the rule loop that is running
  to_remove,          \* page index -> list of marked block indexes
  report,             \* [removed_groups, kept_groups]
  pruned,             \* the document the running call returned (address), 0 before
  first,              \* what the first call returned
  orig                \* the caller's document as it was before the first call

vars == <<heap, parsed_doc, cfg, call, doc, pc, groups, pattern_groups,
          block_index_groups, i, to_remove, report, pruned, first, orig>>

locals == <<groups, pattern_groups, block_index_groups, i, to_remove, report>>

(***************************************************************************)
(* Thresholds: the defaults of the signature                               *)
(***************************************************************************)
DefaultTextSim == <<19, 20>>

DefaultPatternSim == <<4, 5>>

DefaultPagePresenceHalf == <<1, 2>>

DefaultPagePresence == <<19, 20>>

DefaultBboxTol == 3

DefaultEmptyBlock == <<4, 5>>

DefaultCfg ==
  [text_sim_threshold      |-> DefaultTextSim,
   pattern_sim_threshold   |-> DefaultPatternSim,
   page_presence_threshold |-> DefaultPagePresence,
   bbox_tol                |-> DefaultBboxTol,
   empty_block_threshold   |-> DefaultEmptyBlock]

(***************************************************************************)
(* Grouping pass                                                           *)
(***************************************************************************)
Max(a, b) == IF a >= b THEN a ELSE b

Min(a, b) == IF a <= b THEN a ELSE b

\* s[:n]
Take(s, n) == SubSeq(s, 1, Min(n, Len(s)))

\* the pages that hold a block, instead of all pages
total_pages_with_blocks(h, d) ==
  Max(1, Cardinality({p \in 1..Len(GetList(h, d)) :
                        GetList(h, GetList(h, d)[p]) # <<>>}))

\* a floor of 2 instead of 1
total_pages_at_least_two(h, d) == Max(2, Len(GetList(h, d)))

total_pages(h, d) == Max(1, Len(GetList(h, d)))

\* the (p_idx, b_idx, block) triples in the order the nested loops visit them
RECURSIVE Visit(_, _, _)
Visit(h, pages, p) ==
  IF p > Len(pages) THEN <<>>
  ELSE [b \in 1..Len(GetList(h, pages[p])) |->
          [page_index |-> p - 1, block_index |-> b - 1,
           block |-> GetList(h, pages[p])[b]]]
       \o Visit(h, pages, p + 1)

\* a bug that opens a new group for every instance
add_as_new_group(gs, key, inst) == Append(gs, [key |-> key, instances |-> <<inst>>])

\* defaultdict(list)[key].append(inst), the dict kept in insertion order
AddTo(gs, key, inst) ==
  IF \E k \in 1..Len(gs) : gs[k].key = key
  THEN LET k == CHOOSE k \in 1..Len(gs) : gs[k].key = key
       IN  [gs EXCEPT ![k].instances = Append(@, inst)]
  ELSE Append(gs, [key |-> key, instances |-> <<inst>>])

\* block.get("image_bytes") alone
image_bytes_only(block) ==
  IF Truthy(block.image_bytes) THEN block.image_bytes ELSE NoPayload

\* block.get("image") or block.get("image_bytes") or ""
ImagePayload(block) ==
  IF Truthy(block.image) THEN block.image
  ELSE IF Truthy(block.image_bytes) THEN block.image_bytes
       ELSE NoPayload

\* the content_key of a block: [none, v], none for None
ContentKey(block) ==
  IF block.type = 0
  THEN [none |-> FALSE, v |-> _normalize_text(_concat_block_text(block), TRUE, TRUE)]
  ELSE IF block.type = 1
       THEN LET r == _image_hash_from_base64(ImagePayload(block))
            IN  [none |-> r.tag # "hash", v |-> r.digest]
       ELSE [none |-> TRUE, v |-> <<>>]

\* a key that leaves the text out: text blocks group by position alone
exact_key_by_position(block, c) ==
  <<block.type, Quantize(block.bbox, c.bbox_tol),
    IF block.type = 0 THEN [none |-> FALSE, v |-> <<>>] ELSE ContentKey(block)>>

ExactKey(block, c) == <<block.type, Quantize(block.bbox, c.bbox_tol), ContentKey(block)>>

\* the body of the grouping loop for one block; acc holds the three dicts
GroupBlock(acc, h, c, inst) ==
  LET block == h[inst.block].val
      qbbox == Quantize(block.bbox, c.bbox_tol)
      pg == IF block.type = 0
            THEN AddTo(acc.pattern_groups, _create_content_pattern_key(block),
                       [page_index |-> inst.page_index,
                        block_index |-> inst.block_index,
                        block |-> inst.block,
                        text |-> _concat_block_text(block),
                        bbox |-> qbbox])
            ELSE acc.pattern_groups
      ig == IF block.type = 0 /\ _is_mostly_empty_block(block, c.empty_block_threshold)
            THEN AddTo(acc.block_index_groups, inst.block_index,
                       [page_index |-> inst.page_index,
                        block_index |-> inst.block_index,
                        block |-> inst.block,
                        non_empty_spans |-> Len(_get_non_empty_text_spans(block))])
            ELSE acc.block_index_groups
  IN  [groups |-> AddTo(acc.groups, ExactKey(block, c), inst),
       pattern_groups |-> pg,
       block_index_groups |-> ig]

RECURSIVE GroupingPass(_, _, _, _, _)
GroupingPass(acc, h, c, insts, k) ==
  IF k > Len(insts) THEN acc
  ELSE GroupingPass(GroupBlock(acc, h, c, insts[k]), h, c, insts, k + 1)

Grouping(h, d, c) ==
  GroupingPass([groups |-> <<>>, pattern_groups |-> <<>>, block_index_groups |-> <<>>],
               h, c, Visit(h, GetList(h, d), 1), 1)

\* some image block's payload makes _image_hash_from_base64 raise
GroupingRaises(h, d) ==
  LET insts == Visit(h, GetList(h, d), 1)
  IN  \E k \in 1..Len(insts) :
        /\ h[insts[k].block].val.type = 1
        /\ _image_hash_from_base64(ImagePayload(h[insts[k].block].val)).tag = "raise"

report_not_reset == report

InitialReport == [removed_groups |-> <<>>, kept_groups |-> <<>>]

\* lines 146-206: the grouping loop, then the empty to_remove and report
Group ==
  /\ pc = "start"
  /\ IF GroupingRaises(heap, doc)
     THEN /\ pc' = "raised"
          /\ UNCHANGED locals
     ELSE \E g \in {Grouping(heap, doc, cfg)} :
              /\ groups' = g.groups
              /\ pattern_groups' = g.pattern_groups
              /\ block_index_groups' = g.block_index_groups
              /\ to_remove' = [p \in 0..(Len(GetList(heap, doc)) - 1) |-> <<>>]
              /\ report' = InitialReport
              /\ i' = 1
              /\ pc' = "empty"
  /\ UNCHANGED <<heap, parsed_doc, cfg, call, doc, pruned, first, orig>>

(***************************************************************************)
(* Classification: the three rule loops, one group per step                *)
(***************************************************************************)
\* set(inst["page_index"] for inst in instances)
PageSet(instances) == {instances[k].page_index : k \in 1..Len(instances)}

\* a bug that counts instances instead of distinct pages
presence_ratio_by_instances(instances, n) == Rat(Len(instances), n)

\* len(set(page indexes)) / total_pages
presence_ratio(instances, n) == Rat(Cardinality(PageSet(instances)), n)

\* sorted([p + 1 for p in pages])
PagesOneBased(pages) == Ascending({p + 1 : p \in pages})

\* for inst in instances: to_remove[page].append(block_index)
RECURSIVE MarkAll(_, _, _)
MarkAll(tr, instances, k) ==
  IF k > Len(instances) THEN tr
  ELSE MarkAll([tr EXCEPT ![instances[k].page_index] =
                            Append(@, instances[k].block_index)],
               instances, k + 1)

\* a bug that leaves the loop at the first index the page's list already
\* holds (break instead of skipping)
mark_until_marked(tr, instances, k) ==
  LET stop == {m \in k..Len(instances) :
                 \E n \in 1..Len(tr[instances[m].page_index]) :
                   tr[instances[m].page_index][n] = instances[m].block_index}
      last == IF stop = {} THEN Len(instances)
              ELSE (CHOOSE m \in stop : \A n \in stop : m <= n) - 1
  IN  MarkAll(tr, SubSeq(instances, 1, last), k)

\* a bug that marks the first instance of the group only
mark_first_instance(tr, instances, k) ==
  IF k > Len(instances) THEN tr
  ELSE MarkAll(tr, SubSeq(instances, k, k), 1)

\* the same, skipping an index the page's list already holds
RECURSIVE MarkAllOnce(_, _, _)
MarkAllOnce(tr, instances, k) ==
  IF k > Len(instances) THEN tr
  ELSE MarkAllOnce(
         IF \E m \in 1..Len(tr[instances[k].page_index]) :
              tr[instances[k].page_index][m] = instances[k].block_index
         THEN tr
         ELSE [tr EXCEPT ![instances[k].page_index] =
                           Append(@, instances[k].block_index)],
         instances, k + 1)

\* the smallest element instead of the largest
SeqMin(s) == CHOOSE m \in {s[k] : k \in 1..Len(s)} : \A k \in 1..Len(s) : m <= s[k]

SeqMax(s) == CHOOSE m \in {s[k] : k \in 1..Len(s)} : \A k \in 1..Len(s) : s[k] <= m

TextOf(h, inst) == _concat_block_text(h[inst.block].val)

\* lines 209-231, one index group
EmptyRuleStep ==
  /\ pc = "empty"
  /\ i <= Len(block_index_groups)
  /\ LET block_idx        == block_index_groups[i].key
         empty_instances  == block_index_groups[i].instances
         pages_with_empty == PageSet(empty_instances)
         ratio            == presence_ratio(empty_instances, total_pages(heap, doc))
         non_empty_counts == [k \in 1..Len(empty_instances) |->
                                empty_instances[k].non_empty_spans]
     IN  IF /\ RatGeq(ratio, cfg.page_presence_threshold)
            /\ Cardinality({non_empty_counts[k] : k \in 1..Len(non_empty_counts)}) <= 2
            /\ SeqMax(non_empty_counts) <= 3
         THEN /\ to_remove' = MarkAll(to_remove, empty_instances, 1)
              /\ report' =
                   [report EXCEPT !.removed_groups = Append(@,
                      [type |-> "empty_blocks_by_index",
                       reason |-> "repeated_empty_structure_same_position",
                       block_index |-> block_idx,
                       pages_seen |-> Cardinality(pages_with_empty),
                       presence_ratio |-> ratio,
                       pages |-> PagesOneBased(pages_with_empty),
                       non_empty_span_counts |-> Take(non_empty_counts, 5),
                       example_texts |-> [k \in 1..Min(3, Len(empty_instances)) |->
                                            TextOf(heap, empty_instances[k])]])]
         ELSE UNCHANGED <<to_remove, report>>
  /\ i' = i + 1
  /\ UNCHANGED <<heap, parsed_doc, cfg, call, doc, pc, groups, pattern_groups,
                 block_index_groups, pruned, first, orig>>

\* the loop over the index groups is exhausted
EmptyRuleDone ==
  /\ pc = "empty"
  /\ i > Len(block_index_groups)
  /\ pc' = "pattern"
  /\ i' = 1
  /\ UNCHANGED <<heap, parsed_doc, cfg, call, doc, groups, pattern_groups,
                 block_index_groups, to_remove, report, pruned, first, orig>>

\* lines 234-255, one pattern group
PatternRuleStep ==
  /\ pc = "pattern"
  /\ i <= Len(pattern_groups)
  /\ LET pattern_key        == pattern_groups[i].key
         pattern_instances  == pattern_groups[i].instances
         pages_with_pattern == PageSet(pattern_instances)
         ratio == presence_ratio(pattern_instances, total_pages(heap, doc))
     IN  IF RatGeq(ratio, cfg.page_presence_threshold)
         THEN /\ to_remove' = MarkAllOnce(to_remove, pattern_instances, 1)
              /\ report' =
                   [report EXCEPT !.removed_groups = Append(@,
                      [type |-> "pattern_match",
                       reason |-> "same_content_pattern_across_pages",
                       pattern_key |-> pattern_key,
                       pages_seen |-> Cardinality(pages_with_pattern),
                       presence_ratio |-> ratio,
                       pages |-> PagesOneBased(pages_with_pattern),
                       total_instances |-> Len(pattern_instances),
                       example_texts |-> [k \in 1..Min(3, Len(pattern_instances)) |->
                                            pattern_instances[k].text],
                       example_bboxes |-> [k \in 1..Min(3, Len(pattern_instances)) |->
                                             pattern_instances[k].bbox]])]
         ELSE UNCHANGED <<to_remove, report>>
  /\ i' = i + 1
  /\ UNCHANGED <<heap, parsed_doc, cfg, call, doc, pc, groups, pattern_groups,
                 block_index_groups, pruned, first, orig>>

PatternRuleDone ==
  /\ pc = "pattern"
  /\ i > Len(pattern_groups)
  /\ pc' = "exact"
  /\ i' = 1
  /\ UNCHANGED <<heap, parsed_doc, cfg, call, doc, groups, pattern_groups,
                 block_index_groups, to_remove, report, pruned, first, orig>>

StartsWith(s, prefix) ==
  /\ Len(prefix) <= Len(s)
  /\ \A k \in 1..Len(prefix) : s[k] = prefix[k]

HeaderFooterPrefix ==
  <<"h","e","a","d","e","r","_","f","o","o","t","e","r","_">>

\* a structure-match floor that only identical pattern texts reach
StructureFloorOne == <<1, 1>>

ThreeFifths == <<3, 5>>

\* lines 264-340: the decision for a text group whose presence ratio
\* reached the threshold, as [should_remove, removal_reason, median_sim,
\* pattern_sim, ...]
TextDecision(h, c, key, instances) ==
  LET n == Len(instances)
      texts_nodigits == [k \in 1..n |-> _normalize_text(TextOf(h, instances[k]), TRUE, TRUE)]
      pattern_texts  == [k \in 1..n |-> _normalize_text_pattern(TextOf(h, instances[k]), TRUE)]
      median_sim     == _median_pairwise_similarity(texts_nodigits)
      pattern_sim    == _median_pairwise_similarity(pattern_texts)
      mostly_empty_blocks ==
        [k \in 1..n |-> _is_mostly_empty_block(h[instances[k].block].val,
                                               c.empty_block_threshold)]
      page_pattern_blocks  == [k \in 1..n |-> _has_page_pattern(TextOf(h, instances[k]))]
      header_footer_blocks == [k \in 1..n |-> _is_header_footer_block(h[instances[k].block].val)]
      content_key == key[3]
      reason ==
        IF RatGeq(median_sim, c.text_sim_threshold) THEN "high_text_similarity"
        ELSE IF /\ RatGeq(pattern_sim, c.pattern_sim_threshold)
                /\ \E k \in 1..n : page_pattern_blocks[k] \/ header_footer_blocks[k]
             THEN "header_footer_pattern_similarity"
             ELSE IF /\ content_key.v # <<>>
                     /\ StartsWith(content_key.v, HeaderFooterPrefix)
                     /\ RatGeq(pattern_sim, ThreeFifths)
                  THEN "header_footer_structure_match"
                  ELSE ""
  IN  [should_remove |-> reason # "",
       removal_reason |-> reason,
       median_sim |-> median_sim,
       pattern_sim |-> pattern_sim,
       texts_nodigits |-> texts_nodigits,
       pattern_texts |-> pattern_texts,
       mostly_empty_blocks |-> mostly_empty_blocks,
       page_pattern_blocks |-> page_pattern_blocks]

TypeName(block_type) ==
  IF block_type \notin {0, 1} THEN "other"
  ELSE IF block_type = 0 THEN "text" ELSE "image"

\* lines 258-370, one exact group
ExactRuleStep ==
  /\ pc = "exact"
  /\ i <= Len(groups)
  /\ LET key        == groups[i].key
         instances  == groups[i].instances
         block_type == key[1]
         content_key == key[3]
         pages_with == Ascending(PageSet(instances))
         ratio      == presence_ratio(instances, total_pages(heap, doc))
         kept_short == [key |-> key, type |-> TypeName(block_type),
                        pages_seen |-> Len(pages_with), presence_ratio |-> ratio]
     IN  IF RatGeq(ratio, cfg.page_presence_threshold)
         THEN IF block_type = 0
              THEN \E d \in {TextDecision(heap, cfg, key, instances)} :
                       IF d.should_remove
                       THEN /\ to_remove' = MarkAll(to_remove, instances, 1)
                            /\ report' =
                                 [report EXCEPT !.removed_groups = Append(@,
                                    [key |-> key,
                                     type |-> "text",
                                     reason |-> d.removal_reason,
                                     pages_seen |-> Len(pages_with),
                                     presence_ratio |-> ratio,
                                     median_similarity |-> d.median_sim,
                                     pattern_similarity |-> d.pattern_sim,
                                     example_texts |->
                                       [k \in 1..Min(3, Len(instances)) |->
                                          TextOf(heap, instances[k])],
                                     normalized_texts |-> Take(d.texts_nodigits, 3),
                                     pattern_texts |-> Take(d.pattern_texts, 3),
                                     pages |-> [k \in 1..Len(pages_with) |-> pages_with[k] + 1],
                                     block_indexes |->
                                       [k \in 1..Len(instances) |-> instances[k].block_index],
                                     mostly_empty |-> Take(d.mostly_empty_blocks, 3),
                                     has_page_patterns |-> Take(d.page_pattern_blocks, 3)])]
                       ELSE /\ to_remove' = to_remove
                            /\ report' =
                                 [report EXCEPT !.kept_groups = Append(@,
                                    [key |-> key,
                                     type |-> "text",
                                     pages_seen |-> Len(pages_with),
                                     presence_ratio |-> ratio,
                                     median_similarity |-> d.median_sim,
                                     pattern_similarity |-> d.pattern_sim])]
              ELSE IF block_type = 1
              THEN IF ~content_key.none
                   THEN /\ to_remove' = MarkAll(to_remove, instances, 1)
                        /\ report' =
                             [report EXCEPT !.removed_groups = Append(@,
                                [key |-> key,
                                 type |-> "image",
                                 reason |-> "identical_image_hash",
                                 pages_seen |-> Len(pages_with),
                                 presence_ratio |-> ratio,
                                 hash |-> content_key.v,
                                 pages |-> [k \in 1..Len(pages_with) |-> pages_with[k] + 1],
                                 block_indexes |->
                                   [k \in 1..Len(instances) |-> instances[k].block_index]])]
                   ELSE /\ to_remove' = to_remove
                        /\ report' =
                             [report EXCEPT !.kept_groups = Append(@,
                                [key |-> key, type |-> "image",
                                 pages_seen |-> Len(pages_with),
                                 presence_ratio |-> ratio])]
              ELSE UNCHANGED <<to_remove, report>>
         ELSE /\ to_remove' = to_remove
              /\ report' = [report EXCEPT !.kept_groups = Append(@, kept_short)]
  /\ i' = i + 1
  /\ UNCHANGED <<heap, parsed_doc, cfg, call, doc, pc, groups, pattern_groups,
                 block_index_groups, pruned, first, orig>>

ExactRuleDone ==
  /\ pc = "exact"
  /\ i > Len(groups)
  /\ pc' = "prune"
  /\ i' = 1
  /\ UNCHANGED <<heap, parsed_doc, cfg, call, doc, groups, pattern_groups,
                 block_index_groups, to_remove, report, pruned, first, orig>>

(***************************************************************************)
(* Pruning                                                                 *)
(***************************************************************************)
\* insertion of x into a descending sequence of integers
RECURSIVE InsertDesc(_, _)
InsertDesc(x, s) ==
  IF s = <<>> THEN <<x>>
  ELSE IF x >= Head(s) THEN <<x>> \o s
       ELSE <<Head(s)>> \o InsertDesc(x, Tail(s))

RECURSIVE SortDesc(_)
SortDesc(s) == IF s = <<>> THEN <<>> ELSE InsertDesc(Head(s), SortDesc(Tail(s)))

\* a bug that forgets set(): sorted(marks, reverse=True)
remove_indices_with_duplicates(marks) == SortDesc(marks)

\* sorted(set(marks), reverse=True)
remove_indices(marks) == Reverse(Ascending({marks[k] : k \in 1..Len(marks)}))

\* an off-by-one bug: del blocks[ridx + 1]
RECURSIVE delete_each_after(_, _, _)
delete_each_after(blocks, ridxs, k) ==
  IF k > Len(ridxs) THEN blocks
  ELSE delete_each_after(
         IF 0 <= ridxs[k] /\ ridxs[k] < Len(blocks)
         THEN SubSeq(blocks, 1, ridxs[k] + 1) \o SubSeq(blocks, ridxs[k] + 3, Len(blocks))
         ELSE blocks,
         ridxs, k + 1)

\* for ridx in remove_indices: if 0 <= ridx < len(blocks): del blocks[ridx]
RECURSIVE DeleteEach(_, _, _)
DeleteEach(blocks, ridxs, k) ==
  IF k > Len(ridxs) THEN blocks
  ELSE DeleteEach(
         IF 0 <= ridxs[k] /\ ridxs[k] < Len(blocks)
         THEN SubSeq(blocks, 1, ridxs[k]) \o SubSeq(blocks, ridxs[k] + 2, Len(blocks))
         ELSE blocks,
         ridxs, k + 1)

\* to_remove.get(p_idx, [])
MarksOf(tr, p_idx) == IF p_idx \in DOMAIN tr THEN tr[p_idx] ELSE <<>>

\* lines 374-380 for the pages from the k-th on.  A page without "blocks"
\* gets a new empty list under that key.
RECURSIVE PrunePages(_, _, _, _)
PrunePages(h, pages, k, tr) ==
  IF k > Len(pages) THEN h
  ELSE LET pa == pages[k]
       IN  IF h[pa].items = <<>>
           THEN LET h2 == Append(h, Obj("list", <<>>, NullBlock))
                IN  PrunePages([h2 EXCEPT ![pa].items = <<Len(h2)>>], pages, k + 1, tr)
           ELSE PrunePages(
                  [h EXCEPT ![h[pa].items[1]].items =
                              DeleteEach(@, remove_indices(MarksOf(tr, k - 1)), 1)],
                  pages, k + 1, tr)

\* copy.copy(parsed_doc): a new dict that shares the page list
copy_shallow(h, a) == [heap |-> Append(h, h[a]), addr |-> Len(h) + 1]

\* a copy that rebuilds the dicts and lists but keeps the block dicts
copy_sharing_blocks(h, a) ==
  LET R      == Ascending({x \in Reach(h, a) : h[x].kind # "block"})
      new(x) == IF h[x].kind = "block" THEN x
                ELSE Len(h) + (CHOOSE k \in 1..Len(R) : R[k] = x)
      copies == [k \in 1..Len(R) |->
                   [h[R[k]] EXCEPT !.items = [j \in DOMAIN @ |-> new(@[j])]]]
  IN  [heap |-> h \o copies, addr |-> new(a)]

\* a copy that gives the document a "pages" key when it has none
copy_with_pages_key(h, a) ==
  LET c  == deepcopy(h, a)
      h2 == Append(c.heap, Obj("list", <<>>, NullBlock))
  IN  IF c.heap[c.addr].items # <<>> THEN c
      ELSE [heap |-> [h2 EXCEPT ![c.addr].items = <<Len(h2)>>], addr |-> c.addr]

\* pruned = copy.deepcopy(parsed_doc)
CopyDoc(h, a) == deepcopy(h, a)

NoResult == [returned |-> FALSE,
             tree |-> [haspages |-> FALSE, pages |-> <<>>],
             report |-> [removed_groups |-> <<>>, kept_groups |-> <<>>],
             to_remove |-> <<>>]

\* lines 372-382: copy, delete the marked blocks, return
Prune ==
  /\ pc = "prune"
  /\ \E c \in {CopyDoc(heap, doc)} :
     \E h2 \in {PrunePages(c.heap, GetList(c.heap, c.addr), 1, to_remove)} :
         /\ heap' = h2
         /\ pruned' = c.addr
         /\ first' = IF call = "first"
                     THEN [returned |-> TRUE, tree |-> Tree(h2, c.addr),
                           report |-> report, to_remove |-> to_remove]
                     ELSE first
  /\ pc' = "done"
  /\ UNCHANGED <<parsed_doc, cfg, call, doc, groups, pattern_groups,
                 block_index_groups, i, to_remove, report, orig>>

(***************************************************************************)
(* The report-free variant, pdf_to_json_redundancy_removed.py.  Its        *)
(* helper functions (lines 10-120) are the helper functions above, line    *)
(* for line, and its grouping loop (lines 130-183) is the grouping loop    *)
(* above; the three rule loops mark what the loops above mark and write    *)
(* no report.                                                              *)
(***************************************************************************)
\* a variant without the empty-placeholder rule
report_free_no_empty_rule(tr, gs, k, n, c) == tr

\* lines 186-195: the empty-placeholder loop from the k-th index group on
RECURSIVE report_free_empty_rule(_, _, _, _, _)
report_free_empty_rule(tr, gs, k, n, c) ==
  IF k > Len(gs) THEN tr
  ELSE LET empty_instances  == gs[k].instances
           non_empty_counts == [j \in 1..Len(empty_instances) |->
                                  empty_instances[j].non_empty_spans]
       IN  report_free_empty_rule(
             IF RatGeq(presence_ratio(empty_instances, n), c.page_presence_threshold)
             THEN IF /\ Cardinality({non_empty_counts[j] :
                                       j \in 1..Len(non_empty_counts)}) <= 2
                     /\ SeqMax(non_empty_counts) <= 3
                  THEN MarkAll(tr, empty_instances, 1)
                  ELSE tr
             ELSE tr,
             gs, k + 1, n, c)

\* lines 198-205: the pattern loop from the k-th pattern group on
RECURSIVE report_free_pattern_rule(_, _, _, _, _)
report_free_pattern_rule(tr, gs, k, n, c) ==
  IF k > Len(gs) THEN tr
  ELSE report_free_pattern_rule(
         IF RatGeq(presence_ratio(gs[k].instances, n), c.page_presence_threshold)
         THEN MarkAllOnce(tr, gs[k].instances, 1)
         ELSE tr,
         gs, k + 1, n, c)

\* lines 215-250: should_remove of a text group
report_free_should_remove(h, c, key, instances) ==
  LET n == Len(instances)
      texts_nodigits == [k \in 1..n |-> _normalize_text(TextOf(h, instances[k]), TRUE, TRUE)]
      pattern_texts  == [k \in 1..n |-> _normalize_text_pattern(TextOf(h, instances[k]), TRUE)]
      median_sim     == _median_pairwise_similarity(texts_nodigits)
      pattern_sim    == _median_pairwise_similarity(pattern_texts)
      page_pattern_blocks  == [k \in 1..n |-> _has_page_pattern(TextOf(h, instances[k]))]
      header_footer_blocks == [k \in 1..n |-> _is_header_footer_block(h[instances[k].block].val)]
      content_key == key[3]
  IN  IF RatGeq(median_sim, c.text_sim_threshold) THEN TRUE
      ELSE IF /\ RatGeq(pattern_sim, c.pattern_sim_threshold)
              /\ \E k \in 1..n : page_pattern_blocks[k] \/ header_footer_blocks[k]
           THEN TRUE
           ELSE /\ content_key.v # <<>>
                /\ StartsWith(content_key.v, HeaderFooterPrefix)
                /\ RatGeq(pattern_sim, ThreeFifths)

\* lines 208-257: the exact-group loop from the k-th group on
RECURSIVE report_free_exact_rule(_, _, _, _, _, _)
report_free_exact_rule(tr, gs, k, h, n, c) ==
  IF k > Len(gs) THEN tr
  ELSE LET key       == gs[k].key
           instances == gs[k].instances
       IN  report_free_exact_rule(
             IF RatGeq(presence_ratio(instances, n), c.page_presence_threshold)
             THEN IF key[1] = 0
                  THEN IF report_free_should_remove(h, c, key, instances)
                       THEN MarkAll(tr, instances, 1)
                       ELSE tr
                  ELSE IF key[1] = 1 /\ ~key[3].none
                       THEN MarkAll(tr, instances, 1)
                       ELSE tr
             ELSE tr,
             gs, k + 1, h, n, c)

\* lines 130-257: to_remove after the three loops
report_free_to_remove(h, d, c) ==
  LET g == Grouping(h, d, c)
      n == total_pages(h, d)
      t0 == [p \in 0..(Len(GetList(h, d)) - 1) |-> <<>>]
      t1 == report_free_empty_rule(t0, g.block_index_groups, 1, n, c)
      t2 == report_free_pattern_rule(t1, g.pattern_groups, 1, n, c)
  IN  report_free_exact_rule(t2, g.groups, 1, h, n, c)

\* the caller runs the report-free remove_repeated_blocks (lines 122-271)
\* on the same document with the same thresholds, whether the first call
\* returned or raised
CallReportFree ==
  /\ pc \in {"done", "raised"}
  /\ call = "first"
  /\ call' = "free"
  /\ doc' = parsed_doc
  /\ IF GroupingRaises(heap, parsed_doc)
     THEN /\ pc' = "raised"
          /\ UNCHANGED <<heap, pruned>>
     ELSE \E tr \in {report_free_to_remove(heap, parsed_doc, cfg)} :
          \E c \in {CopyDoc(heap, parsed_doc)} :
          \E h2 \in {PrunePages(c.heap, GetList(c.heap, c.addr), 1, tr)} :
              /\ heap' = h2
              /\ pruned' = c.addr
              /\ pc' = "done"
  /\ UNCHANGED <<parsed_doc, cfg, groups, pattern_groups, block_index_groups,
                 i, to_remove, report, first, orig>>

(***************************************************************************)
(* The caller                                                              *)
(***************************************************************************)
\* a second call with the same document and thresholds.  The locals of
\* the finished call are dead; Group initialises the new ones.
CallAgain ==
  /\ pc = "done"
  /\ call = "first"
  /\ call' = "same"
  /\ doc' = parsed_doc
  /\ pc' = "start"
  /\ pruned' = 0
  /\ UNCHANGED <<heap, parsed_doc, cfg, groups, pattern_groups,
                 block_index_groups, i, to_remove, report, first, orig>>

\* a second call on the pruned document the first call returned
CallOnPruned ==
  /\ pc = "done"
  /\ call = "first"
  /\ call' = "onpruned"
  /\ doc' = pruned
  /\ pc' = "start"
  /\ pruned' = 0
  /\ UNCHANGED <<heap, parsed_doc, cfg, groups, pattern_groups,
                 block_index_groups, i, to_remove, report, first, orig>>

\* one in-place change of the object at a: `del x[0]` on a list, `del`
\* of the "pages" / "blocks" key of a dict, a new "type" for a block
CanMutate(h, a) == h[a].kind = "block" \/ h[a].items # <<>>

Mutated(h, a) ==
  IF h[a].kind = "block"
  THEN [h EXCEPT ![a].val.type = (@ + 1) % 3]
  ELSE [h EXCEPT ![a].items = Tail(@)]

\* the caller changes an object of its own document after the call
MutateInput ==
  /\ pc = "done"
  /\ \E a \in Reach(heap, parsed_doc) :
       /\ CanMutate(heap, a)
       /\ heap' = Mutated(heap, a)
  /\ pc' = "mutated_input"
  /\ UNCHANGED <<parsed_doc, cfg, call, doc, groups, pattern_groups,
                 block_index_groups, i, to_remove, report, pruned, first, orig>>

\* the caller changes an object of the returned document
MutatePruned ==
  /\ pc = "done"
  /\ \E a \in Reach(heap, pruned) :
       /\ CanMutate(heap, a)
       /\ heap' = Mutated(heap, a)
  /\ pc' = "mutated_pruned"
  /\ UNCHANGED <<parsed_doc, cfg, call, doc, groups, pattern_groups,
                 block_index_groups, i, to_remove, report, pruned, first, orig>>

(***************************************************************************)
(* Input documents                                                         *)
(***************************************************************************)
MaxPages == 2

MaxBlocks == 2

\* bounding boxes, in half units: [50,780,550,800], [50,100,550,700],
\* [10,10,30,30]
BoxA == <<100, 1560, 1100, 1600>>

BoxB == <<100, 200, 1100, 1400>>

BoxC == <<20, 20, 60, 60>>

\* a text block of one line with the given span texts
TextBlock(bbox, spans) ==
  [type |-> 0, bbox |-> bbox, lines |-> <<spans>>,
   image |-> NoPayload, image_bytes |-> NoPayload]

ImageBlock(bbox, payload) ==
  [type |-> 1, bbox |-> bbox, lines |-> <<>>,
   image |-> payload, image_bytes |-> NoPayload]

\* an image block whose payload is under "image_bytes"
ImageBytesBlock(bbox, payload) ==
  [type |-> 1, bbox |-> bbox, lines |-> <<>>,
   image |-> NoPayload, image_bytes |-> payload]

OtherBlock(bbox) ==
  [type |-> 2, bbox |-> bbox, lines |-> <<>>,
   image |-> NoPayload, image_bytes |-> NoPayload]

\* "QUI=", the base64 text of the bytes 65 66
LogoPayload == [kind |-> "str", data |-> <<"Q","U","I","=">>]

\* texts that differ in a digit only, at two positions
PatternFamily ==
  { TextBlock(BoxA, <<<<"a","1">>>>),
    TextBlock(BoxB, <<<<"a","2">>>>) }

\* two unrelated texts at one position
TextFamily ==
  { TextBlock(BoxA, <<<<"a","1">>>>),
    TextBlock(BoxA, <<<<"b">>>>) }

\* one payload at two positions
ImageFamily ==
  { ImageBlock(BoxA, LogoPayload),
    ImageBlock(BoxB, LogoPayload) }

\* an image with and an image without payload at one position
PayloadFamily ==
  { ImageBlock(BoxA, LogoPayload),
    ImageBlock(BoxA, NoPayload) }

\* a block of another type and a text block with a malformed bbox
MixedFamily ==
  { OtherBlock(BoxA),
    TextBlock(<<100, 1560>>, <<<<"a","1">>>>) }

\* the bytes b"abcd", themselves valid base64, under "image", and their
\* base64 text "YWJjZA=="
DecodedFamily ==
  { ImageBlock(BoxA, [kind |-> "bytes", data |-> <<97, 98, 99, 100>>]),
    ImageBlock(BoxA, [kind |-> "str",
                      data |-> <<"Y","W","J","j","Z","A","=","=">>]) }

\* the bytes b"AB" under "image_bytes", and their base64 text "QUI="
RawFamily ==
  { ImageBytesBlock(BoxA, [kind |-> "bytes", data |-> <<65, 66>>]),
    ImageBlock(BoxA, LogoPayload) }

\* one text with no bbox and with a bbox of five coordinates
MalformedFamily ==
  { TextBlock(<<>>, <<<<"a","1">>>>),
    TextBlock(<<100, 1560, 1100, 1600, 20>>, <<<<"a","1">>>>) }

\* "1 a 2" and "34 a 5": digit runs at both ends, next to blanks
DigitFamily ==
  { TextBlock(BoxA, <<<<"1"," ","a"," ","2">>>>),
    TextBlock(BoxA, <<<<"3","4"," ","a"," ","5">>>>) }

Families ==
  { PatternFamily, TextFamily, ImageFamily, PayloadFamily, MixedFamily,
    DecodedFamily, RawFamily, MalformedFamily, DigitFamily }

\* a plain text block and two sparse blocks (one span of five non-blank)
\* with different texts and positions
PlainBlock == TextBlock(BoxA, <<<<"x">>>>)

SparseBlocks ==
  { TextBlock(BoxB, <<<<"a">>, <<>>, <<>>, <<" ">>, <<>> >>),
    TextBlock(BoxC, <<<<"b">>, <<>>, <<>>, <<" ">>, <<>> >>) }

SeqsUpTo(S, n) == UNION {[1..k -> S] : k \in 0..n}

Injective(q) == \A j, k \in 1..Len(q) : q[j] = q[k] => j = k

\* pages of at most MaxBlocks different blocks of a family
FamilyPages(F) == {q \in SeqsUpTo(F, MaxBlocks) : Injective(q)}

\* pages of the plain block and at most one sparse block
SparsePages ==
  {q \in FamilyPages({PlainBlock} \cup SparseBlocks) :
     Cardinality({k \in 1..Len(q) : q[k] \in SparseBlocks}) <= 1}

\* pages that repeat one block
RepeatPages == SeqsUpTo({TextBlock(BoxA, <<<<"b">>>>)}, MaxBlocks)

\* the documents of at most MaxPages pages drawn from P
DocsOf(P) ==
  { [haspages |-> TRUE,
     pages |-> [k \in 1..Len(ps) |-> [hasblocks |-> TRUE, blocks |-> ps[k]]]] :
    ps \in SeqsUpTo(P, MaxPages) }

\* a document without "pages", and one whose second page has no "blocks"
KeylessDocs ==
  { [haspages |-> FALSE, pages |-> <<>>],
    [haspages |-> TRUE,
     pages |-> << [hasblocks |-> TRUE,
                   blocks |-> <<TextBlock(BoxA, <<<<"a","1">>>>)>>],
                  [hasblocks |-> FALSE, blocks |-> <<>>] >>] }

GeneralDocs ==
  UNION {DocsOf(FamilyPages(F)) : F \in Families}
    \cup DocsOf(SparsePages)
    \cup DocsOf(RepeatPages)
    \cup KeylessDocs

\* page_presence_threshold values tried on the general documents
PresenceThresholds == {<<1, 2>>, <<19, 20>>, <<1, 1>>}

\* the decimal digits of n, 1 <= n <= 99
Decimal(n) ==
  LET d == <<"0","1","2","3","4","5","6","7","8","9">>
  IN  IF n < 10 THEN <<d[n + 1]>> ELSE <<d[(n \div 10) + 1], d[(n % 10) + 1]>>

\* the footer of page n of 10: "Page n of 10" at [50,780,550,800]
Footer(n) ==
  TextBlock(BoxA, << <<"P","a","g","e"," ">> \o Decimal(n) \o <<" ","o","f"," ","1","0">> >>)

\* body blocks with a text unique to page n: a letter; "s" and the page
\* number; a letter followed by four blank spans
Body(kind, n) ==
  IF kind = "letter" THEN TextBlock(BoxB, <<<<LowerChars[n]>>>>)
  ELSE IF kind = "numbered" THEN TextBlock(BoxB, <<<<"s">> \o Decimal(n)>>)
       ELSE TextBlock(BoxB, <<<<LowerChars[n]>>, <<>>, <<>>, <<" ">>, <<>>>>)

BodyKinds == {"letter", "numbered", "sparse"}

FooterDocs ==
  { [haspages |-> TRUE,
     pages |-> [n \in 1..10 |->
                  [hasblocks |-> TRUE, blocks |-> <<Body(kind, n), Footer(n)>>]]] :
    kind \in BodyKinds }

ConfidentialDraft == TextBlock(BoxA, <<<<"C","o","n","f","i","d","e","n","t","i","a","l"," ","D","r","a","f","t">>>>)

\* what the two other pages of the five hold
Fillers ==
  { <<>>,
    <<TextBlock(BoxA, <<<<"b">>>>)>>,
    <<TextBlock(BoxA, <<<<"C","o","n","f","i","d","e","n","t","i","a","l"," ","D","r","a","f","t"," ","7">>>>)>> }

ConfidentialDocs ==
  { [haspages |-> TRUE,
     pages |-> [n \in 1..5 |->
                  [hasblocks |-> TRUE,
                   blocks |-> IF n \in on THEN <<ConfidentialDraft>> ELSE filler]]] :
    on \in {{1, 2, 3}, {1, 3, 5}}, filler \in Fillers }

\* a block of `total` spans of which the first `filled` hold the letter
\* and the others are blank
Placeholder(bbox, letter, filled, total) ==
  TextBlock(bbox, [k \in 1..total |->
                     IF k <= filled THEN <<letter>>
                     ELSE IF k % 2 = 0 THEN <<>> ELSE <<" ">>])

\* three pages with a one-of-six placeholder at the same index, its text
\* and position changing from page to page, alone or after a body block
PlaceholderDocs ==
  { [haspages |-> TRUE,
     pages |-> [n \in 1..3 |->
                  [hasblocks |-> TRUE,
                   blocks |-> (IF body THEN <<Body("letter", n + 3)>> ELSE <<>>)
                              \o <<Placeholder(IF n = 2 THEN BoxC ELSE BoxA,
                                                LowerChars[n], 1, 6)>>]]] :
    body \in BOOLEAN }

\* three pages, each with one placeholder of 1 to 4 non-blank spans among
\* five times as many
CountDocs ==
  { [haspages |-> TRUE,
     pages |-> [n \in 1..3 |->
                  [hasblocks |-> TRUE,
                   blocks |-> <<Placeholder(BoxA, LowerChars[n],
                                            counts[n], 5 * counts[n])>>]]] :
    counts \in [1..3 -> 1..4] }

\* a sparse block that is first on page 1 and second on page 2, at
\* different positions, behind another sparse block
OverlapDocs ==
  { [haspages |-> TRUE,
     pages |-> << [hasblocks |-> TRUE,
                   blocks |-> <<Placeholder(BoxB, "a", 1, 5)>>],
                  [hasblocks |-> TRUE,
                   blocks |-> <<Placeholder(BoxC, "b", 1, 5),
                                Placeholder(BoxA, "a", 1, 5)>>] >>] }

\* pairs of texts that share a digit-free text: "header_footer_x" twice,
\* "a" twice, "Page 1" twice, "Page 1" with "Page", and "header_footer_1"
\* with "header_footer_"; pairs that differ in digits or in case:
\* "Page 3 of 40" with "Page 4 of 41" and with "PAGE 4 of 41",
\* "CONFIDENTIAL" with "confidential", "Page 3 x" with "page 3 X"
SimilarityTexts ==
  { <<HeaderFooterPrefix \o <<"x">>, HeaderFooterPrefix \o <<"x">> >>,
    << <<"a">>, <<"a">> >>,
    << <<"P","a","g","e"," ","1">>, <<"P","a","g","e"," ","1">> >>,
    << <<"P","a","g","e"," ","1">>, <<"P","a","g","e">> >>,
    <<HeaderFooterPrefix \o <<"1">>, HeaderFooterPrefix>>,
    << <<"P","a","g","e"," ","3"," ","o","f"," ","4","0">>,
       <<"P","a","g","e"," ","4"," ","o","f"," ","4","1">> >>,
    << <<"P","a","g","e"," ","3"," ","o","f"," ","4","0">>,
       <<"P","A","G","E"," ","4"," ","o","f"," ","4","1">> >>,
    << <<"C","O","N","F","I","D","E","N","T","I","A","L">>,
       <<"c","o","n","f","i","d","e","n","t","i","a","l">> >>,
    << <<"P","a","g","e"," ","3"," ","x">>,
       <<"p","a","g","e"," ","3"," ","X">> >> }

\* two pages, each with one block of the pair at the same position
SimilarityDocs ==
  { [haspages |-> TRUE,
     pages |-> [n \in 1..2 |->
                  [hasblocks |-> TRUE, blocks |-> <<TextBlock(BoxA, <<t[n]>>)>>]]] :
    t \in SimilarityTexts }

\* text_sim_threshold = 1.5, which no similarity reaches
StrictCfg == [DefaultCfg EXCEPT !.text_sim_threshold = <<3, 2>>]

ScenarioDocs ==
  FooterDocs \cup ConfidentialDocs \cup PlaceholderDocs \cup CountDocs
    \cup OverlapDocs \cup SimilarityDocs

\* the documents and thresholds of the calls that are explored
Inputs ==
  { <<t, [DefaultCfg EXCEPT !.page_presence_threshold = thr]>> :
      t \in GeneralDocs, thr \in PresenceThresholds }
  \cup { <<t, DefaultCfg>> : t \in ScenarioDocs }
  \cup { <<t, StrictCfg>> : t \in SimilarityDocs }

InitWith(input) ==
  LET a == AllocDoc(<<>>, input[1])
  IN  /\ heap = a.heap
      /\ parsed_doc = a.addr
      /\ doc = a.addr
      /\ cfg = input[2]
      /\ call = "first"
      /\ pc = "start"
      /\ groups = <<>>
      /\ pattern_groups = <<>>
      /\ block_index_groups = <<>>
      /\ i = 1
      /\ to_remove = <<>>
      /\ report = [removed_groups |-> <<>>, kept_groups |-> <<>>]
      /\ pruned = 0
      /\ first = NoResult
      /\ orig = input[1]

Init == \E input \in Inputs : InitWith(input)

Next ==
  \/ Group
  \/ EmptyRuleStep
  \/ EmptyRuleDone
  \/ PatternRuleStep
  \/ PatternRuleDone
  \/ ExactRuleStep
  \/ ExactRuleDone
  \/ Prune
  \/ CallAgain
  \/ CallOnPruned
  \/ CallReportFree

Spec == Init /\ [][Next]_vars

\* one call, after which the caller changes its document or the result
InitAlias == \E input \in Inputs : input[2] = DefaultCfg /\ InitWith(input)

NextAlias ==
  \/ Group
  \/ EmptyRuleStep
  \/ EmptyRuleDone
  \/ PatternRuleStep
  \/ PatternRuleDone
  \/ ExactRuleStep
  \/ ExactRuleDone
  \/ Prune
  \/ MutateInput
  \/ MutatePruned

SpecAlias == InitAlias /\ [][NextAlias]_vars

(***************************************************************************)
(* Properties                                                              *)
(***************************************************************************)
\* the first call has returned
FirstDone == pc = "done" /\ call = "first"

\* the page sequences of the running call's argument and of its result
InPages == Tree(heap, doc).pages

OutPages == Tree(heap, pruned).pages

Threshold == cfg.page_presence_threshold

\* k of n pages is below the page presence threshold
BelowThreshold(k, n) == k * Threshold[2] < Threshold[1] * n

PageCount(pages) == IF Len(pages) = 0 THEN 1 ELSE Len(pages)

\* the group is present on fewer pages than the threshold asks for
GroupBelow(instances) ==
  BelowThreshold(Cardinality({instances[k].page_index : k \in 1..Len(instances)}),
                 PageCount(InPages))

\* how many blocks of the sequence equal v
Count(blocks, v) == Cardinality({k \in 1..Len(blocks) : blocks[k] = v})

\* the blocks of a page whose 0-based index is not in M, in page order
Unmarked(blocks, M) ==
  LET keep == SelectSeq([k \in 1..Len(blocks) |-> k], LAMBDA k : (k - 1) \notin M)
  IN  [j \in 1..Len(keep) |-> blocks[keep[j]]]

\* the pages (1-based) of a document that hold a block in v's exact group,
\* in v's pattern group, and a mostly-empty text block at 0-based index b
ExactPages(pages, v) ==
  {p \in 1..Len(pages) :
     \E b \in 1..Len(pages[p].blocks) :
       ExactKey(pages[p].blocks[b], cfg) = ExactKey(v, cfg)}

PatternPages(pages, v) ==
  {p \in 1..Len(pages) :
     \E b \in 1..Len(pages[p].blocks) :
       /\ pages[p].blocks[b].type = 0
       /\ _create_content_pattern_key(pages[p].blocks[b]) = _create_content_pattern_key(v)}

IndexPages(pages, b) ==
  {p \in 1..Len(pages) :
     /\ b + 1 <= Len(pages[p].blocks)
     /\ pages[p].blocks[b + 1].type = 0
     /\ _is_mostly_empty_block(pages[p].blocks[b + 1], cfg.empty_block_threshold)}

\* the block at 1-based position b of page p is in no group, of any of
\* the three partitions, that reaches the threshold
AllGroupsBelow(pages, p, b) ==
  LET v == pages[p].blocks[b]
      n == PageCount(pages)
  IN  /\ BelowThreshold(Cardinality(ExactPages(pages, v)), n)
      /\ v.type = 0 => BelowThreshold(Cardinality(PatternPages(pages, v)), n)
      /\ (v.type = 0 /\ _is_mostly_empty_block(v, cfg.empty_block_threshold))
           => BelowThreshold(Cardinality(IndexPages(pages, b - 1)), n)

\* C1: presence-ratio monotonicity.  The step of a rule that evaluates a
\* group (index group, pattern group or exact group) present on k of n
\* pages with k/n below page_presence_threshold adds nothing to to_remove.
C1_PresenceMonotone ==
  [][ /\ (pc = "empty" /\ i <= Len(block_index_groups)
            /\ GroupBelow(block_index_groups[i].instances))
           => to_remove' = to_remove
      /\ (pc = "pattern" /\ i <= Len(pattern_groups)
            /\ GroupBelow(pattern_groups[i].instances))
           => to_remove' = to_remove
      /\ (pc = "exact" /\ i <= Len(groups) /\ GroupBelow(groups[i].instances))
           => to_remove' = to_remove ]_vars

\* the three rules have each evaluated a group below the threshold, and
\* some other group was marked
C1_Witness ==
  /\ FirstDone
  /\ \E k \in 1..Len(block_index_groups) : GroupBelow(block_index_groups[k].instances)
  /\ \E k \in 1..Len(pattern_groups) : GroupBelow(pattern_groups[k].instances)
  /\ \E k \in 1..Len(groups) : GroupBelow(groups[k].instances)
  /\ \E p \in DOMAIN to_remove : to_remove[p] # <<>>

\* C2 as stated: every block whose exact group has a presence ratio below
\* the threshold is still in the pruned document.
C2_BelowThresholdKept ==
  FirstDone =>
    \A p \in 1..Len(orig.pages) : \A b \in 1..Len(orig.pages[p].blocks) :
      BelowThreshold(Cardinality(ExactPages(orig.pages, orig.pages[p].blocks[b])),
                     PageCount(orig.pages))
        => Count(OutPages[p].blocks, orig.pages[p].blocks[b])
             = Count(orig.pages[p].blocks, orig.pages[p].blocks[b])

\* C2 amended: a block is still in the pruned document when its exact
\* group and, for a text block, its pattern group and (if it is mostly
\* empty) its index group all have a presence ratio below the threshold.
C2_AllGroupsBelowKept ==
  FirstDone =>
    \A p \in 1..Len(orig.pages) : \A b \in 1..Len(orig.pages[p].blocks) :
      (\A b2 \in 1..Len(orig.pages[p].blocks) :
         orig.pages[p].blocks[b2] = orig.pages[p].blocks[b]
           => AllGroupsBelow(orig.pages, p, b2))
        => Count(OutPages[p].blocks, orig.pages[p].blocks[b])
             = Count(orig.pages[p].blocks, orig.pages[p].blocks[b])

\* a mostly-empty text block below the threshold in all three partitions
\* survived a call that removed another block of its page
C2_Witness ==
  /\ FirstDone
  /\ \E p \in 1..Len(orig.pages) : \E b \in 1..Len(orig.pages[p].blocks) :
       /\ orig.pages[p].blocks[b].type = 0
       /\ _is_mostly_empty_block(orig.pages[p].blocks[b], cfg.empty_block_threshold)
       /\ AllGroupsBelow(orig.pages, p, b)
       /\ OutPages[p].blocks = <<orig.pages[p].blocks[b]>>
       /\ Len(orig.pages[p].blocks) = 2

\* C3: the pruned document has the pages of the input, in order, and each
\* page holds exactly the input page's blocks whose index no rule marked,
\* in their original order, however often an index was marked.
C3_PrunedIsUnmarked ==
  pc = "done" =>
    /\ Len(OutPages) = Len(InPages)
    /\ \A p \in 1..Len(InPages) :
         OutPages[p].blocks
           = Unmarked(InPages[p].blocks,
                      {to_remove[p - 1][k] : k \in 1..Len(to_remove[p - 1])})

\* an index was marked twice on a page and the block next to it survived
C3_Witness ==
  /\ pc = "done"
  /\ \E p \in DOMAIN to_remove :
       /\ Len(to_remove[p]) = 2
       /\ to_remove[p][1] = to_remove[p][2]
       /\ Len(InPages[p + 1].blocks) = 2
       /\ Len(OutPages[p + 1].blocks) = 1

\* C4: the caller's document stays what it was before the call, through
\* the call and whatever it removes.
C4_InputUnchanged == Tree(heap, parsed_doc) = orig

\* a call returned a document with fewer blocks, the input as before
C4_Witness ==
  /\ FirstDone
  /\ Tree(heap, pruned) # orig
  /\ Tree(heap, parsed_doc) = orig

\* C5: non-aliasing.  The returned document shares no object with the
\* input: a change of an object of the one leaves the other as it was.
C5_NoAliasing ==
  [][ /\ pc' = "done" => Reach(heap', pruned') \cap Reach(heap', parsed_doc') = {}
      /\ pc' = "mutated_pruned" => Tree(heap', parsed_doc') = Tree(heap, parsed_doc)
      /\ pc' = "mutated_input" => Tree(heap', pruned') = Tree(heap, pruned) ]_vars

\* the returned document was changed after the call
C5_Witness ==
  /\ pc = "mutated_pruned"
  /\ Tree(heap, pruned) # first.tree
  /\ Tree(heap, parsed_doc) = orig

\* C6: idempotence.  A second call on the pruned document returns it
\* unchanged.
C6_Idempotent ==
  (pc = "done" /\ call = "onpruned") => Tree(heap, pruned) = first.tree

\* C7: determinism.  A second call with the same document and thresholds
\* returns the same pruned document and the same report.
C7_Deterministic ==
  (pc = "done" /\ call = "same") =>
    /\ Tree(heap, pruned) = first.tree
    /\ report = first.report

\* a second call returned, with removed and kept groups in its report
C7_Witness ==
  /\ pc = "done"
  /\ call = "same"
  /\ report.removed_groups # <<>>
  /\ report.kept_groups # <<>>

\* the blocks of a document, as <<page, position>> pairs
Positions(pages) ==
  UNION {{<<p, b>> : b \in 1..Len(pages[p].blocks)} : p \in 1..Len(pages)}

\* the text blocks of the other pages
ElsewhereText(pages, p) ==
  {q \in Positions(pages) : q[1] # p /\ pages[q[1]].blocks[q[2]].type = 0}

\* the text of block v occurs in no block of another page
UniqueToPage(pages, p, v) ==
  \A q \in ElsewhereText(pages, p) :
    _concat_block_text(pages[q[1]].blocks[q[2]]) # _concat_block_text(v)

\* ... and it still does once digit runs are taken out or replaced by X
UniqueModuloDigits(pages, p, v) ==
  \A q \in ElsewhereText(pages, p) :
    /\ _normalize_text(_concat_block_text(pages[q[1]].blocks[q[2]]), TRUE, TRUE)
         # _normalize_text(_concat_block_text(v), TRUE, TRUE)
    /\ _normalize_text_pattern(_concat_block_text(pages[q[1]].blocks[q[2]]), TRUE)
         # _normalize_text_pattern(_concat_block_text(v), TRUE)

\* the body blocks of page p: those that are not the page's footer
BodyPositions(pages, p) ==
  {b \in 1..Len(pages[p].blocks) : pages[p].blocks[b] # Footer(p)}

\* ten pages, each with its footer "Page N of 10" once and with text body
\* blocks whose text is on no other page; default thresholds
FooterScenario ==
  /\ FirstDone
  /\ cfg = DefaultCfg
  /\ Len(orig.pages) = 10
  /\ \A p \in 1..10 :
       /\ Count(orig.pages[p].blocks, Footer(p)) = 1
       /\ BodyPositions(orig.pages, p) # {}
       /\ \A b \in BodyPositions(orig.pages, p) :
            /\ orig.pages[p].blocks[b].type = 0
            /\ UniqueToPage(orig.pages, p, orig.pages[p].blocks[b])

FootersRemoved == \A p \in 1..10 : Count(OutPages[p].blocks, Footer(p)) = 0

BodyKept(p, b) ==
  Count(OutPages[p].blocks, orig.pages[p].blocks[b])
    = Count(orig.pages[p].blocks, orig.pages[p].blocks[b])

\* C8 as stated: in the footer scenario all ten footers are removed and
\* every body block is kept.
C8_FooterScenario ==
  FooterScenario =>
    /\ FootersRemoved
    /\ \A p \in 1..10 : \A b \in BodyPositions(orig.pages, p) : BodyKept(p, b)

\* C8 amended: in the footer scenario all ten footers are removed, and a
\* body block is kept if it is not mostly empty and its text is still on
\* no other page after digit runs are removed or generalised.
C8_FooterScenarioModuloDigits ==
  FooterScenario =>
    /\ FootersRemoved
    /\ \A p \in 1..10 : \A b \in BodyPositions(orig.pages, p) :
         (/\ ~_is_mostly_empty_block(orig.pages[p].blocks[b], cfg.empty_block_threshold)
          /\ UniqueModuloDigits(orig.pages, p, orig.pages[p].blocks[b]))
           => BodyKept(p, b)

\* the footer scenario with such bodies: each page is left with its body
C8_Witness ==
  /\ FooterScenario
  /\ \A p \in 1..10 :
       /\ Len(OutPages[p].blocks) = 1
       /\ Len(orig.pages[p].blocks) = 2
       /\ UniqueModuloDigits(orig.pages, p, OutPages[p].blocks[1])

\* the image blocks with a payload
ImagePositions(pages) ==
  {q \in Positions(pages) :
     /\ pages[q[1]].blocks[q[2]].type = 1
     /\ pages[q[1]].blocks[q[2]].image.kind = "str"
     /\ pages[q[1]].blocks[q[2]].image.data # <<>>}

\* the pages with an image block carrying the payload of v
PayloadPages(pages, v) ==
  {q[1] : q \in {r \in ImagePositions(pages) :
                   pages[r[1]].blocks[r[2]].image = v.image}}

\* ... carrying that payload at the quantised bounding box of v
PayloadBoxPages(pages, v) ==
  {q[1] : q \in {r \in ImagePositions(pages) :
                   /\ pages[r[1]].blocks[r[2]].image = v.image
                   /\ Quantize(pages[r[1]].blocks[r[2]].bbox, cfg.bbox_tol)
                        = Quantize(v.bbox, cfg.bbox_tol)}}

AllPages(pages) == 1..Len(pages)

\* C9 as stated: image blocks with byte-identical payloads on different
\* pages, present on every page, are all removed, wherever they sit.
C9_ImageScenario ==
  FirstDone =>
    \A q \in ImagePositions(orig.pages) :
      (/\ Len(orig.pages) >= 2
       /\ PayloadPages(orig.pages, orig.pages[q[1]].blocks[q[2]]) = AllPages(orig.pages))
        => Count(OutPages[q[1]].blocks, orig.pages[q[1]].blocks[q[2]]) = 0

\* C9 amended: image blocks with byte-identical payloads and the same
\* quantised bounding box on different pages, present on every page, are
\* all removed.
C9_ImageScenarioSameBox ==
  FirstDone =>
    \A q \in ImagePositions(orig.pages) :
      (/\ Len(orig.pages) >= 2
       /\ PayloadBoxPages(orig.pages, orig.pages[q[1]].blocks[q[2]]) = AllPages(orig.pages))
        => Count(OutPages[q[1]].blocks, orig.pages[q[1]].blocks[q[2]]) = 0

\* two pages held the same logo at the same place, and both lost it
C9_Witness ==
  /\ FirstDone
  /\ Len(orig.pages) = 2
  /\ \E q \in ImagePositions(orig.pages) :
       /\ PayloadBoxPages(orig.pages, orig.pages[q[1]].blocks[q[2]]) = {1, 2}
       /\ \A p \in 1..2 : Count(OutPages[p].blocks, orig.pages[q[1]].blocks[q[2]]) = 0
       /\ \A p \in 1..2 : Count(orig.pages[p].blocks, orig.pages[q[1]].blocks[q[2]]) = 1

\* five pages, "Confidential Draft" on exactly three of them, its groups
\* present on those three pages only (ratio 0.6); default thresholds
RareBlockScenario ==
  /\ FirstDone
  /\ cfg = DefaultCfg
  /\ Len(orig.pages) = 5
  /\ Cardinality({p \in 1..5 : Count(orig.pages[p].blocks, ConfidentialDraft) > 0}) = 3
  /\ Cardinality(ExactPages(orig.pages, ConfidentialDraft)) = 3
  /\ Cardinality(PatternPages(orig.pages, ConfidentialDraft)) = 3

FilledSpans(v) ==
  Cardinality({k \in 1..Len(SpanTexts(v.lines)) : Strip(SpanTexts(v.lines)[k]) # <<>>})

\* a text block with one of six spans non-blank
OneOfSix(v) == v.type = 0 /\ Len(SpanTexts(v.lines)) = 6 /\ FilledSpans(v) = 1

\* every page has a one-of-six block at 0-based index b, and the texts of
\* these blocks differ from page to page; default thresholds
PlaceholderScenario(b) ==
  /\ FirstDone
  /\ cfg = DefaultCfg
  /\ Len(orig.pages) >= 2
  /\ \A p \in 1..Len(orig.pages) :
       /\ b + 1 <= Len(orig.pages[p].blocks)
       /\ OneOfSix(orig.pages[p].blocks[b + 1])
  /\ \A p, q \in 1..Len(orig.pages) :
       p # q => _concat_block_text(orig.pages[p].blocks[b + 1])
                  # _concat_block_text(orig.pages[q].blocks[b + 1])

\* the report entry of the empty-placeholder rule for index b, all pages
PlaceholderEntry(b) ==
  \E k \in 1..Len(report.removed_groups) :
    /\ report.removed_groups[k].type = "empty_blocks_by_index"
    /\ report.removed_groups[k].block_index = b
    /\ report.removed_groups[k].pages = [p \in 1..Len(orig.pages) |-> p]

\* C11: a text block with 1 of 6 spans non-blank at the same block index
\* on every page, its text differing from page to page, is removed on
\* every page by the empty-placeholder rule under default thresholds.
C11_PlaceholderRemoved ==
  \A b \in {q[2] - 1 : q \in Positions(orig.pages)} :
    PlaceholderScenario(b) =>
      /\ \A p \in 1..Len(orig.pages) :
           Count(OutPages[p].blocks, orig.pages[p].blocks[b + 1]) = 0
      /\ PlaceholderEntry(b)

\* the placeholders were second on their pages; the first blocks are left
\* and the placeholder entry is the only removal
C11_Witness ==
  /\ PlaceholderScenario(1)
  /\ PlaceholderEntry(1)
  /\ Len(report.removed_groups) = 1
  /\ \A p \in 1..Len(orig.pages) : OutPages[p].blocks = <<orig.pages[p].blocks[1]>>

\* the fields of a report entry
Fields(entry) == DOMAIN entry

\* C12: every removed_groups entry carries a 1-based pages list, the
\* affected block indexes (block_indexes, or the one block_index that all
\* instances of an index group share), the trigger reason, and a score in
\* evidence (a similarity, or at least the presence ratio).
C12_ReportContract ==
  \A k \in 1..Len(report.removed_groups) :
    /\ "pages" \in Fields(report.removed_groups[k])
    /\ \A j \in 1..Len(report.removed_groups[k].pages) :
         /\ report.removed_groups[k].pages[j] >= 1
         /\ report.removed_groups[k].pages[j] <= PageCount(InPages)
    /\ {"block_indexes", "block_index"} \cap Fields(report.removed_groups[k]) # {}
    /\ "reason" \in Fields(report.removed_groups[k])
    /\ {"median_similarity", "pattern_similarity", "presence_ratio"}
         \cap Fields(report.removed_groups[k]) # {}

\* the image blocks of a document that carry some payload
PayloadPositions(pages) ==
  {q \in Positions(pages) :
     /\ pages[q[1]].blocks[q[2]].type = 1
     /\ Truthy(ImagePayload(pages[q[1]].blocks[q[2]]))}

\* the image bytes a payload stands for: the bytes themselves, or what its
\* base64 text decodes to ([ok, bytes])
PayloadBytes(payload) ==
  IF payload.kind = "bytes" THEN [ok |-> TRUE, bytes |-> payload.data]
  ELSE a2b_base64(EncodeAscii(payload.data), 1, 0, 0, 0, <<>>)

FingerprintAt(pages, q) ==
  _image_hash_from_base64(ImagePayload(pages[q[1]].blocks[q[2]]))

\* C13: two image blocks whose payloads stand for the same bytes, whether
\* passed as decoded bytes or as base64 text, get the same digest.
C13_SameBytesSameDigest ==
  pc # "start" =>
    \A q, r \in PayloadPositions(orig.pages) :
      (/\ PayloadBytes(ImagePayload(orig.pages[q[1]].blocks[q[2]])).ok
       /\ PayloadBytes(ImagePayload(orig.pages[q[1]].blocks[q[2]]))
            = PayloadBytes(ImagePayload(orig.pages[r[1]].blocks[r[2]])))
        => /\ FingerprintAt(orig.pages, q).tag = "hash"
           /\ FingerprintAt(orig.pages, q) = FingerprintAt(orig.pages, r)

\* C14: the fingerprint never raises; it is None exactly when no payload
\* is present and a digest otherwise, so no call of the engine ends in an
\* exception.
C14_NeverThrows ==
  pc # "start" =>
    /\ pc # "raised"
    /\ \A q \in Positions(orig.pages) :
         orig.pages[q[1]].blocks[q[2]].type = 1 =>
           /\ FingerprintAt(orig.pages, q).tag # "raise"
           /\ FingerprintAt(orig.pages, q).tag = "none"
                <=> ~Truthy(ImagePayload(orig.pages[q[1]].blocks[q[2]]))

\* the text blocks of a document
TextPositions(pages) == {q \in Positions(pages) : pages[q[1]].blocks[q[2]].type = 0}

TextAt(pages, q) == _concat_block_text(pages[q[1]].blocks[q[2]])

\* the two texts are the same once every digit run is replaced by one
\* token that no text contains: they differ in their digit runs only
SameButDigits(s, t) == SubDigits(s, <<"DIGITS">>) = SubDigits(t, <<"DIGITS">>)

\* the blocks at q and r are instances of one exact group
SameExactGroup(q, r) ==
  \E k \in 1..Len(groups) :
    \A x \in {q, r} :
      \E j \in 1..Len(groups[k].instances) :
        /\ groups[k].instances[j].page_index = x[1] - 1
        /\ groups[k].instances[j].block_index = x[2] - 1

Grouped == pc \notin {"start", "raised"}

\* the grouping pass has just ended: the three dicts are complete and no
\* later line changes them
AfterGrouping == pc = "empty" /\ i = 1

\* C15: two text blocks whose texts differ in digit runs only have the
\* same digit-free fingerprint, and are in the same exact group when their
\* quantised bounding boxes agree.
C15_DigitInvariant ==
  AfterGrouping =>
    \A pages \in {InPages} :
      \A q, r \in TextPositions(pages) :
        SameButDigits(TextAt(pages, q), TextAt(pages, r)) =>
          /\ _normalize_text(TextAt(pages, q), TRUE, TRUE)
               = _normalize_text(TextAt(pages, r), TRUE, TRUE)
          /\ Quantize(pages[q[1]].blocks[q[2]].bbox, cfg.bbox_tol)
               = Quantize(pages[r[1]].blocks[r[2]].bbox, cfg.bbox_tol)
             => SameExactGroup(q, r)

\* two footers with page numbers of different lengths share a group
C15_Witness ==
  /\ AfterGrouping
  /\ \E q, r \in TextPositions(InPages) :
       /\ Len(TextAt(InPages, q)) # Len(TextAt(InPages, r))
       /\ SameButDigits(TextAt(InPages, q), TextAt(InPages, r))
       /\ SameExactGroup(q, r)


(***************************************************************************)
(* Malformed bounding boxes                                                *)
(***************************************************************************)
BlockAt(pages, q) == pages[q[1]].blocks[q[2]]

\* the bbox is absent, empty or has another number of coordinates than 4
Malformed(block) == Len(block.bbox) # 4

MalformedPositions(pages) == {q \in Positions(pages) : Malformed(BlockAt(pages, q))}

\* the keys of the exact groups that hold the block at q
KeysOf(q) ==
  {groups[k].key : k \in {k \in 1..Len(groups) :
     \E j \in 1..Len(groups[k].instances) :
       /\ groups[k].instances[j].page_index = q[1] - 1
       /\ groups[k].instances[j].block_index = q[2] - 1}}

\* some image payload of the document is a bytes object
BytesPayload(pages) ==
  \E q \in Positions(pages) :
    /\ BlockAt(pages, q).type = 1
    /\ ImagePayload(BlockAt(pages, q)).kind = "bytes"

\* C16: a block whose bbox is missing, empty or not of 4 coordinates is
\* keyed with the quantised bbox (0,0,0,0), the call does not raise because
\* of it, and malformed blocks of one type and one content fingerprint are
\* instances of one exact group.
C16_MalformedBboxSentinel ==
  /\ (pc # "start" /\ MalformedPositions(InPages) # {} /\ ~BytesPayload(InPages))
       => pc # "raised"
  /\ AfterGrouping =>
       \A pages \in {InPages} :
         \A q \in MalformedPositions(pages) :
           /\ KeysOf(q) # {}
           /\ \A key \in KeysOf(q) : key[2] = <<0, 0, 0, 0>>
           /\ \A r \in MalformedPositions(pages) :
                ( /\ BlockAt(pages, q).type = BlockAt(pages, r).type
                  /\ ContentKey(BlockAt(pages, q)) = ContentKey(BlockAt(pages, r)) )
                  => SameExactGroup(q, r)

\* a block without bbox and one with five coordinates end in one group,
\* and the call returns
C16_Witness ==
  /\ FirstDone
  /\ \E q, r \in MalformedPositions(InPages) :
       /\ Len(BlockAt(InPages, q).bbox) = 0
       /\ Len(BlockAt(InPages, r).bbox) = 5
       /\ SameExactGroup(q, r)


(***************************************************************************)
(* Documents without pages                                                 *)
(***************************************************************************)
\* C17: for a document without "pages" key or with an empty page list the
\* call does not raise, total_pages is 1, nothing is marked, the returned
\* document is a copy equal to the input and both report lists are empty.
C17_NoPages ==
  InPages = <<>> =>
    /\ pc # "raised"
    /\ total_pages(heap, doc) = 1
    /\ Grouped =>
         /\ groups = <<>> /\ pattern_groups = <<>> /\ block_index_groups = <<>>
         /\ \A p \in DOMAIN to_remove : to_remove[p] = <<>>
         /\ report = [removed_groups |-> <<>>, kept_groups |-> <<>>]
    /\ pc = "done" =>
         /\ pruned # doc
         /\ Tree(heap, pruned) = Tree(heap, doc)
         /\ Tree(heap, doc) = orig

\* the first call returned for a document that has no "pages" key
C17_Witness ==
  /\ FirstDone
  /\ ~orig.haspages
  /\ Tree(heap, pruned) = orig


(***************************************************************************)
(* The removal set as the union of the three rules' marks                  *)
(***************************************************************************)
\* the (page index, block index) pairs of a list of instances
InstMarks(instances) ==
  {<<instances[k].page_index, instances[k].block_index>> : k \in 1..Len(instances)}

\* the pairs to_remove holds
Marked ==
  UNION {{<<p, to_remove[p][m]>> : m \in 1..Len(to_remove[p])} : p \in DOMAIN to_remove}

PresentEnough(instances) ==
  RatGeq(presence_ratio(instances, total_pages(heap, doc)), cfg.page_presence_threshold)

\* the decision of each rule for one of its groups, as a function of the
\* group and the document only
EmptyRuleFires(g) ==
  /\ PresentEnough(g.instances)
  /\ Cardinality({g.instances[k].non_empty_spans : k \in 1..Len(g.instances)}) <= 2
  /\ \A k \in 1..Len(g.instances) : g.instances[k].non_empty_spans <= 3

PatternRuleFires(g) == PresentEnough(g.instances)

ExactRuleFires(g) ==
  /\ PresentEnough(g.instances)
  /\ \/ g.key[1] = 0 /\ TextDecision(heap, cfg, g.key, g.instances).should_remove
     \/ g.key[1] = 1 /\ ~g.key[3].none

\* the marks of the first n groups of each partition
EmptyMarks(n) ==
  UNION {InstMarks(block_index_groups[k].instances) :
           k \in {k \in 1..n : EmptyRuleFires(block_index_groups[k])}}

PatternMarks(n) ==
  UNION {InstMarks(pattern_groups[k].instances) :
           k \in {k \in 1..n : PatternRuleFires(pattern_groups[k])}}

ExactMarks(n) ==
  UNION {InstMarks(groups[k].instances) :
           k \in {k \in 1..n : ExactRuleFires(groups[k])}}

UnionMarks ==
  EmptyMarks(Len(block_index_groups)) \cup PatternMarks(Len(pattern_groups))
    \cup ExactMarks(Len(groups))

\* C18: the marked set is the union of what the three rules mark, each
\* rule deciding from its groups and the document alone: while a rule loop
\* runs the marks are those of the groups already visited, whatever was
\* marked before, and the pruned document lacks exactly the union.
C18_UnionOfRules ==
  /\ pc = "empty" => Marked = EmptyMarks(i - 1)
  /\ pc = "pattern" =>
       Marked = EmptyMarks(Len(block_index_groups)) \cup PatternMarks(i - 1)
  /\ pc = "exact" =>
       Marked = EmptyMarks(Len(block_index_groups))
                  \cup PatternMarks(Len(pattern_groups)) \cup ExactMarks(i - 1)
  /\ pc = "prune" => Marked = UnionMarks
  /\ (pc = "done" /\ Tree(heap, doc) = orig) =>
       \A U \in {UnionMarks} :
         /\ Marked = U
         /\ \A p \in 1..Len(orig.pages) :
              OutPages[p].blocks
                = Unmarked(orig.pages[p].blocks, {m[2] : m \in {m \in U : m[1] = p - 1}})

\* a block marked by the empty-placeholder rule and by the pattern rule,
\* and another marked by the pattern rule alone; both are removed
C18_Witness ==
  /\ FirstDone
  /\ \E m \in EmptyMarks(Len(block_index_groups)) :
       m \in PatternMarks(Len(pattern_groups))
  /\ \E m \in PatternMarks(Len(pattern_groups)) :
       /\ m \notin EmptyMarks(Len(block_index_groups))
       /\ m \notin ExactMarks(Len(groups))
       /\ m \in Marked
  /\ \A p \in 1..Len(OutPages) : OutPages[p].blocks = <<>>


(***************************************************************************)
(* The three partitions                                                    *)
(***************************************************************************)
\* where the block at q occurs in a list of groups: <<group, instance>>
Occurrences(gs, q) ==
  UNION {{<<k, j>> : j \in {j \in 1..Len(gs[k].instances) :
                              /\ gs[k].instances[j].page_index = q[1] - 1
                              /\ gs[k].instances[j].block_index = q[2] - 1}} :
           k \in 1..Len(gs)}

\* the block at q occurs once in the groups, under key, as the block itself
OnceUnder(gs, q, key, block) ==
  /\ Cardinality(Occurrences(gs, q)) = 1
  /\ \A o \in Occurrences(gs, q) :
       /\ gs[o[1]].key = key
       /\ heap[gs[o[1]].instances[o[2]].block].val = block

InstanceCount(gs) ==
  Cardinality(UNION {{<<k, j>> : j \in 1..Len(gs[k].instances)} : k \in 1..Len(gs)})

DistinctKeys(gs) == \A k, l \in 1..Len(gs) : gs[k].key = gs[l].key => k = l

IsText(block) == block.type = 0

IsMostlyEmptyText(block) ==
  IsText(block) /\ _is_mostly_empty_block(block, cfg.empty_block_threshold)

\* C19: after the grouping pass every block is an instance of exactly one
\* exact group, the one keyed (type, quantised bbox, fingerprint); every
\* text block is an instance of exactly one pattern group and no other
\* block is in one; index group i holds exactly the mostly-empty text
\* blocks at index i.  The groups hold nothing else and no key occurs twice.
C19_GroupingPartition ==
  AfterGrouping =>
    \A pages \in {InPages} :
      /\ DistinctKeys(groups) /\ DistinctKeys(pattern_groups)
      /\ DistinctKeys(block_index_groups)
      /\ InstanceCount(groups) = Cardinality(Positions(pages))
      /\ InstanceCount(pattern_groups)
           = Cardinality({q \in Positions(pages) : IsText(BlockAt(pages, q))})
      /\ InstanceCount(block_index_groups)
           = Cardinality({q \in Positions(pages) : IsMostlyEmptyText(BlockAt(pages, q))})
      /\ \A q \in Positions(pages) :
           \A block \in {BlockAt(pages, q)} :
             /\ OnceUnder(groups, q, ExactKey(block, cfg), block)
             /\ IF IsText(block)
                THEN OnceUnder(pattern_groups, q, _create_content_pattern_key(block), block)
                ELSE Occurrences(pattern_groups, q) = {}
             /\ IF IsMostlyEmptyText(block)
                THEN OnceUnder(block_index_groups, q, q[2] - 1, block)
                ELSE Occurrences(block_index_groups, q) = {}

\* a document with a mostly-empty text block, a text block that is not
\* mostly empty and an exact group of two instances
C19_Witness ==
  /\ AfterGrouping
  /\ \E q, r \in Positions(InPages) :
       /\ IsMostlyEmptyText(BlockAt(InPages, q))
       /\ IsText(BlockAt(InPages, r))
       /\ ~IsMostlyEmptyText(BlockAt(InPages, r))
       /\ Occurrences(block_index_groups, q) # {}
       /\ Occurrences(block_index_groups, r) = {}
  /\ \E k \in 1..Len(groups) : Len(groups[k].instances) >= 2


(***************************************************************************)
(* The empty-placeholder rule                                              *)
(***************************************************************************)
\* the non-empty-span counts of the mostly-empty text blocks at index b
SpanCountsAt(pages, b) ==
  {Len(_get_non_empty_text_spans(pages[p].blocks[b + 1])) : p \in IndexPages(pages, b)}

\* the condition of the rule for index b, from the document
EmptyRuleCondition(pages, b) ==
  /\ ~BelowThreshold(Cardinality(IndexPages(pages, b)), PageCount(pages))
  /\ Cardinality(SpanCountsAt(pages, b)) <= 2
  /\ \A n \in SpanCountsAt(pages, b) : n <= 3

\* C20: a step of the empty-placeholder rule marks every instance of its
\* index group when the group is on at least page_presence_threshold of
\* the pages, its instances show at most 2 distinct non-empty-span counts
\* and no count exceeds 3; otherwise the step marks nothing.
C20_EmptyRule ==
  [][ (pc = "empty" /\ i <= Len(block_index_groups)) =>
        IF EmptyRuleCondition(InPages, block_index_groups[i].key)
        THEN /\ InstMarks(block_index_groups[i].instances)
                  = {<<p - 1, block_index_groups[i].key>> :
                       p \in IndexPages(InPages, block_index_groups[i].key)}
             /\ Marked' = Marked \cup InstMarks(block_index_groups[i].instances)
        ELSE to_remove' = to_remove ]_vars

\* the rule has marked a group whose instances show two distinct counts,
\* the larger being 3
C20_Witness ==
  /\ pc = "pattern"
  /\ \E b \in {block_index_groups[k].key : k \in 1..Len(block_index_groups)} :
       /\ Cardinality(SpanCountsAt(InPages, b)) = 2
       /\ 3 \in SpanCountsAt(InPages, b)
       /\ \A p \in IndexPages(InPages, b) : <<p - 1, b>> \in Marked


(***************************************************************************)
(* The pattern rule                                                        *)
(***************************************************************************)
\* the block the instance refers to
InstBlock(inst) == heap[inst.block].val

\* C21: a step of the pattern rule marks every instance of its pattern
\* group when the group is on at least page_presence_threshold of the
\* pages (a page counts once however many instances it holds), and marks
\* nothing otherwise; nothing else about the group is tested.
C21_PatternRule ==
  [][ (pc = "pattern" /\ i <= Len(pattern_groups)) =>
        \A pages \in {InPages} :
          IF ~BelowThreshold(
                Cardinality(PatternPages(pages, InstBlock(pattern_groups[i].instances[1]))),
                PageCount(pages))
          THEN Marked' = Marked \cup InstMarks(pattern_groups[i].instances)
          ELSE to_remove' = to_remove ]_vars

\* the rule has marked a pattern group whose instances sit in different
\* exact groups
C21_Witness ==
  /\ pc = "exact"
  /\ i = 1
  /\ \E k \in 1..Len(pattern_groups) :
       /\ PatternRuleFires(pattern_groups[k])
       /\ InstMarks(pattern_groups[k].instances) \subseteq Marked
       /\ \E a, b \in 1..Len(pattern_groups[k].instances) :
            ExactKey(InstBlock(pattern_groups[k].instances[a]), cfg)
              # ExactKey(InstBlock(pattern_groups[k].instances[b]), cfg)


(***************************************************************************)
(* The exact-group rule for text groups                                    *)
(***************************************************************************)
\* the step of the exact rule that is about to run visits a text group
\* whose presence ratio reaches the threshold
TextGroupStep ==
  /\ pc = "exact"
  /\ i <= Len(groups)
  /\ groups[i].key[1] = 0
  /\ PresentEnough(groups[i].instances)

InstTexts(g) == [k \in 1..Len(g.instances) |-> TextOf(heap, g.instances[k])]

MedianSim(g) ==
  _median_pairwise_similarity(
    [k \in 1..Len(g.instances) |-> _normalize_text(InstTexts(g)[k], TRUE, TRUE)])

PatternSim(g) ==
  _median_pairwise_similarity(
    [k \in 1..Len(g.instances) |-> _normalize_text_pattern(InstTexts(g)[k], TRUE)])

HighTextSimilarity(g) == RatGeq(MedianSim(g), cfg.text_sim_threshold)

PatternSimilarity(g) ==
  /\ RatGeq(PatternSim(g), cfg.pattern_sim_threshold)
  /\ \E k \in 1..Len(g.instances) :
       \/ _has_page_pattern(InstTexts(g)[k])
       \/ _is_header_footer_block(InstBlock(g.instances[k]))

\* the digit-free text starts with "header_footer_" and the pattern
\* similarity is at least 0.6
StructureMatch(g) ==
  /\ Len(g.key[3].v) >= 14
  /\ SubSeq(g.key[3].v, 1, 14)
       = <<"h","e","a","d","e","r","_","f","o","o","t","e","r","_">>
  /\ RatGeq(PatternSim(g), <<3, 5>>)

\* the step marks the group and reports it removed
StepRemoves(g) ==
  /\ Marked' = Marked \cup InstMarks(g.instances)
  /\ report'.kept_groups = report.kept_groups
  /\ Len(report'.removed_groups) = Len(report.removed_groups) + 1
  /\ report'.removed_groups[Len(report'.removed_groups)].key = g.key

\* the step marks nothing and reports the group kept
StepKeeps(g) ==
  /\ to_remove' = to_remove
  /\ report'.removed_groups = report.removed_groups
  /\ Len(report'.kept_groups) = Len(report.kept_groups) + 1
  /\ report'.kept_groups[Len(report'.kept_groups)].key = g.key

IsImage(block) == block.type = 1

HasPayload(block) == Truthy(ImagePayload(block))

\* per page, the image blocks without payload, in page order
BarePayloads(pages) ==
  [p \in 1..Len(pages) |->
     SelectSeq(pages[p].blocks, LAMBDA b : IsImage(b) /\ ~HasPayload(b))]

\* C23: a step of the exact rule on an image group marks its instances
\* when the group's presence ratio reaches page_presence_threshold and the
\* blocks carry a payload (the hash is not None), and marks nothing
\* otherwise; pruning leaves every image block without payload in place.
C23_ImageRule ==
  [][ /\ (pc = "exact" /\ i <= Len(groups) /\ groups[i].key[1] = 1) =>
           IF /\ PresentEnough(groups[i].instances)
              /\ \A k \in 1..Len(groups[i].instances) :
                   HasPayload(InstBlock(groups[i].instances[k]))
           THEN StepRemoves(groups[i])
           ELSE StepKeeps(groups[i])
      /\ pc = "prune" =>
           /\ \A m \in Marked :
                \A pages \in {InPages} :
                  IsImage(BlockAt(pages, <<m[1] + 1, m[2] + 1>>))
                    => HasPayload(BlockAt(pages, <<m[1] + 1, m[2] + 1>>))
           /\ BarePayloads(Tree(heap', pruned').pages) = BarePayloads(InPages) ]_vars

\* an image without payload on every page survived the call while the
\* image with payload was removed
C23_Witness ==
  /\ FirstDone
  /\ Len(orig.pages) >= 2
  /\ \A p \in 1..Len(orig.pages) :
       /\ \E b \in 1..Len(orig.pages[p].blocks) :
            IsImage(orig.pages[p].blocks[b]) /\ HasPayload(orig.pages[p].blocks[b])
       /\ \E b \in 1..Len(orig.pages[p].blocks) :
            IsImage(orig.pages[p].blocks[b]) /\ ~HasPayload(orig.pages[p].blocks[b])
       /\ Len(OutPages[p].blocks) = 1
       /\ ~HasPayload(OutPages[p].blocks[1])


(***************************************************************************)
(* The pattern fingerprint                                                 *)
(***************************************************************************)
\* position k of s lies inside a match of page\s+\d+(\s+of\s+\d+)?
InPageForm(s, k) ==
  \E j \in 1..k : MatchPageN(s, j) > k \/ MatchPageNofM(s, j) > k

\* the texts are equal up to letter case and differ in the case of a
\* letter that is outside every page form
CaseDiffersOutsidePageForms(s, t) ==
  /\ Len(s) = Len(t)
  /\ Lower(s) = Lower(t)
  /\ \E k \in 1..Len(s) : s[k] # t[k] /\ ~InPageForm(s, k)

SameShape(b, c) ==
  /\ Len(_get_non_empty_text_spans(b)) = Len(_get_non_empty_text_spans(c))
  /\ Len(b.lines) = Len(c.lines)

SamePatternGroup(q, r) ==
  \E k \in 1..Len(pattern_groups) :
    {<<q[1] - 1, q[2] - 1>>, <<r[1] - 1, r[2] - 1>>}
      \subseteq InstMarks(pattern_groups[k].instances)

\* C24: two text blocks of the same span and line counts whose texts
\* differ only in digit runs (inside a "page N of M" / "page N" form or
\* elsewhere) have the same pattern key and are in one pattern group; two
\* whose texts differ in the case of a letter outside the page forms have
\* different pattern keys and are in different pattern groups.
C24_PatternFingerprint ==
  AfterGrouping =>
    \A pages \in {InPages} :
      \A q, r \in TextPositions(pages) :
        /\ (SameButDigits(TextAt(pages, q), TextAt(pages, r))
              /\ SameShape(BlockAt(pages, q), BlockAt(pages, r)))
             => /\ _create_content_pattern_key(BlockAt(pages, q))
                     = _create_content_pattern_key(BlockAt(pages, r))
                /\ SamePatternGroup(q, r)
        /\ CaseDiffersOutsidePageForms(TextAt(pages, q), TextAt(pages, r))
             => /\ _create_content_pattern_key(BlockAt(pages, q))
                     # _create_content_pattern_key(BlockAt(pages, r))
                /\ ~SamePatternGroup(q, r)

\* "Page 3 of 40" and "Page 4 of 41" share a pattern group
C24_Witness ==
  /\ AfterGrouping
  /\ \E q, r \in TextPositions(InPages) :
       /\ TextAt(InPages, q) = <<"P","a","g","e"," ","3"," ","o","f"," ","4","0">>
       /\ TextAt(InPages, r) = <<"P","a","g","e"," ","4"," ","o","f"," ","4","1">>
       /\ SamePatternGroup(q, r)


(***************************************************************************)
(* Similarity inside an exact group                                        *)
(***************************************************************************)
ReachesThreshold(ratio) == RatGeq(ratio, cfg.page_presence_threshold)

\* the rule loops have run or run now, so the report holds what the
\* exact rule has written so far
Reported == pc \in {"exact", "prune", "done"}

\* C25: the instances of a text exact group share their digit-stripped
\* text, so the median similarity the rule computes is 1; when
\* text_sim_threshold is at most 1 every text group whose presence ratio
\* reaches the threshold is removed for high_text_similarity, no group is
\* removed for header_footer_pattern_similarity or
\* header_footer_structure_match, and no text group with such a ratio is
\* listed as kept.
C25_MedianSimilarityOne ==
  /\ AfterGrouping =>
       \A k \in 1..Len(groups) :
         groups[k].key[1] = 0 =>
           /\ \A j \in 1..Len(groups[k].instances) :
                _normalize_text(TextOf(heap, groups[k].instances[j]), TRUE, TRUE)
                  = groups[k].key[3].v
           /\ MedianSim(groups[k]) = <<1, 1>>
  /\ Reported =>
       /\ \A k \in 1..Len(report.removed_groups) :
            report.removed_groups[k].type = "text" =>
              /\ report.removed_groups[k].median_similarity = <<1, 1>>
              /\ RatLeq(cfg.text_sim_threshold, <<1, 1>>) =>
                   report.removed_groups[k].reason = "high_text_similarity"
       /\ \A k \in 1..Len(report.kept_groups) :
            report.kept_groups[k].type = "text" =>
              /\ "median_similarity" \in Fields(report.kept_groups[k]) =>
                   report.kept_groups[k].median_similarity = <<1, 1>>
              /\ RatLeq(cfg.text_sim_threshold, <<1, 1>>) =>
                   ~ReachesThreshold(report.kept_groups[k].presence_ratio)
  /\ (pc = "prune" /\ RatLeq(cfg.text_sim_threshold, <<1, 1>>)) =>
       \A k \in 1..Len(groups) :
         (groups[k].key[1] = 0 /\ PresentEnough(groups[k].instances)) =>
           \E e \in 1..Len(report.removed_groups) :
             /\ report.removed_groups[e].type = "text"
             /\ report.removed_groups[e].key = groups[k].key

\* a group of two different texts, "Page 1" and "Page", whose pattern
\* similarity is 0.6, was removed for high text similarity
C25_Witness ==
  /\ pc = "prune"
  /\ RatLeq(cfg.text_sim_threshold, <<1, 1>>)
  /\ \E k \in 1..Len(report.removed_groups) :
       /\ report.removed_groups[k].type = "text"
       /\ report.removed_groups[k].reason = "high_text_similarity"
       /\ report.removed_groups[k].pattern_similarity = <<3, 5>>


(***************************************************************************)
(* Single-page documents                                                   *)
(***************************************************************************)
\* the blocks no rule can remove: image blocks without payload and blocks
\* of a type other than text and image
Opaque(block) == ~IsText(block) /\ ~(IsImage(block) /\ HasPayload(block))

\* C26: for a document of exactly one page and page_presence_threshold at
\* most 1 the call removes every text block and every image block with a
\* payload: the returned page holds the image blocks without payload and
\* the blocks of other types, in their order, and nothing else.
C26_SinglePageEmptied ==
  (FirstDone /\ Len(orig.pages) = 1 /\ RatLeq(cfg.page_presence_threshold, <<1, 1>>)) =>
    /\ Len(OutPages) = 1
    /\ OutPages[1].blocks = SelectSeq(orig.pages[1].blocks, Opaque)

\* a single page lost its text block and kept its block of another type
C26_Witness ==
  /\ FirstDone
  /\ Len(orig.pages) = 1
  /\ \E b \in 1..Len(orig.pages[1].blocks) : IsText(orig.pages[1].blocks[b])
  /\ Len(OutPages[1].blocks) = 1
  /\ OutPages[1].blocks[1].type = 2


(***************************************************************************)
(* The report against the pruned document                                  *)
(***************************************************************************)
\* the instances of the exact groups the report lists as kept
ReportedKept ==
  UNION {InstMarks(groups[k].instances) :
           k \in {k \in 1..Len(groups) :
                    \E e \in 1..Len(report.kept_groups) :
                      report.kept_groups[e].key = groups[k].key}}

\* C27: no instance of an exact group that the report lists in kept_groups
\* is removed: none is marked, and each page of the pruned document holds
\* at least the kept instances of that page.
C27_ReportedKeptIsKept ==
  FirstDone =>
    /\ ReportedKept \cap Marked = {}
    /\ \A p \in 1..Len(orig.pages) :
         (\E m \in ReportedKept : m[1] = p - 1) =>
           Len(OutPages[p].blocks)
             >= Cardinality({m \in ReportedKept : m[1] = p - 1})


\* the entries of a report list that carry the key
EntriesWithKey(entries, key) ==
  {e \in 1..Len(entries) : "key" \in Fields(entries[e]) /\ entries[e].key = key}

\* C28: once the exact rule has visited every group, each exact group, of
\* any type and any presence ratio, has exactly one report entry with its
\* key, in removed_groups or in kept_groups.
C28_EveryGroupReported ==
  (pc \in {"prune", "done"} /\ call = "first") =>
    \A k \in 1..Len(groups) :
      Cardinality(EntriesWithKey(report.removed_groups, groups[k].key))
        + Cardinality(EntriesWithKey(report.kept_groups, groups[k].key)) = 1


(***************************************************************************)
(* Blocks of other types                                                   *)
(***************************************************************************)
IsOther(block) == block.type \notin {0, 1}

\* C29: a block whose type is neither 0 nor 1 is never marked, and every
\* page of the pruned document holds the page's blocks of other types in
\* their input order, between the surviving blocks that surrounded them.
C29_OtherTypesKept ==
  /\ Grouped =>
       \A pages \in {InPages} :
         \A m \in Marked : ~IsOther(BlockAt(pages, <<m[1] + 1, m[2] + 1>>))
  /\ FirstDone =>
       \A p \in 1..Len(orig.pages) :
         /\ SelectSeq(OutPages[p].blocks, IsOther)
              = SelectSeq(orig.pages[p].blocks, IsOther)
         /\ OutPages[p].blocks
              = Unmarked(orig.pages[p].blocks, {m[2] : m \in {m \in Marked : m[1] = p - 1}})

\* a page lost the text block that preceded its block of another type
C29_Witness ==
  /\ FirstDone
  /\ \E p \in 1..Len(orig.pages) :
       /\ Len(orig.pages[p].blocks) = 2
       /\ IsText(orig.pages[p].blocks[1])
       /\ IsOther(orig.pages[p].blocks[2])
       /\ OutPages[p].blocks = <<orig.pages[p].blocks[2]>>


(***************************************************************************)
(* The report-free variant against the reporting one                       *)
(***************************************************************************)
\* C30: on the same document and thresholds the report-free
\* remove_repeated_blocks returns the pruned document the reporting one
\* returns, and raises when the reporting one raises.
C30_ReportFreeEquivalent ==
  call = "free" =>
    /\ pc = "raised" <=> ~first.returned
    /\ pc = "done" =>
         /\ Tree(heap, pruned) = first.tree
         /\ Tree(heap, doc) = orig

\* both variants returned a document from which blocks were removed and
\* in which blocks are left
C30_Witness ==
  /\ call = "free"
  /\ pc = "done"
  /\ Tree(heap, pruned) = first.tree
  /\ Tree(heap, pruned) # orig
  /\ \E p \in 1..Len(OutPages) : OutPages[p].blocks # <<>>

====
